---- MODULE Spec2Model ----
(***************************************************************************)
(* letpl: type checker, name resolver, bytecode compiler and stack VM.     *)
(*                                                                         *)
(* A program (a typed AST) is drawn from a bounded family, pushed through  *)
(* the pipeline of main.rs `eval` (type check, resolve names, compile) and *)
(* the resulting chunk is executed by the VM one instruction per step.     *)
(***************************************************************************)
EXTENDS Integers, Sequences, FiniteSets, TLC

VARIABLES
    program,     \* ast::Program.expr, the source expression
    checked,     \* result of type_checking::let_type_of
    resolved,    \* final CompilerState of name_analysis::resolve_names
    chunk,       \* Vec<Op> returned by compiler::compile
    tops,        \* per emitted op: CompilerState.stack_top when it was emitted
    phase,       \* "run" | "done" | "error" | "panic" | "rejected"
    next_op,     \* runtime::run next_op (0-based Address)
    stack,       \* runtime::run stack (ValueStack)
    stack_base,  \* runtime::run stack_base
    captures,    \* runtime::run captures (Rc<Vec<Value>>)
    call_stack,  \* runtime::run call_stack (Vec<Frame>)
    result,      \* the Ok value or the Err string of run
    frames,      \* per call_stack frame: the (procedure, argument) the Call saw
                 \* (the last TailCall, if any), the stack height, ip,
                 \* stack_base and captures at the Call, and the number of
                 \* TailCalls since
    made,        \* the Procedure values MakeProc built, as they were built
    steps        \* how many ops the loop of run executed, and how many calls

vars == <<program, checked, resolved, chunk, tops, phase, next_op, stack,
          stack_base, captures, call_stack, result, frames, made, steps>>

(***************************************************************************)
(* Bounds of the model.                                                    *)
(***************************************************************************)
MaxN == 3          \* largest argument N of the tail-recursive loop programs

(***************************************************************************)
(* ast.rs: types.                                                          *)
(***************************************************************************)
TInt == [tag |-> "Int"]
TBool == [tag |-> "Bool"]
TProc(p, r) == [tag |-> "Proc", t_param |-> p, t_result |-> r]

RECURSIVE type_eq(_, _)
type_eq(a, b) ==
    IF a.tag = "Int" /\ b.tag = "Int" THEN TRUE
    ELSE IF a.tag = "Bool" /\ b.tag = "Bool" THEN TRUE
    ELSE IF a.tag = "Proc" /\ b.tag = "Proc"
         THEN type_eq(a.t_param, b.t_param) /\ type_eq(a.t_result, b.t_result)
    ELSE FALSE

(***************************************************************************)
(* ast.rs: expressions.                                                    *)
(***************************************************************************)
LiteralInt(n) == [tag |-> "LiteralInt", n |-> n]
LiteralBool(b) == [tag |-> "LiteralBool", b |-> b]
Name(x) == [tag |-> "Name", name |-> x]
Subtract(l, r) == [tag |-> "Subtract", left |-> l, right |-> r]
IsZero(e) == [tag |-> "IsZero", e |-> e]
If(t, c, a) == [tag |-> "If", test |-> t, consequent |-> c, alternate |-> a]
Let(x, e, b) == [tag |-> "Let", name |-> x, expr |-> e, body |-> b]
LetRec(tr, f, p, tp, pb, lb) ==
    [tag |-> "LetRec", t_result |-> tr, name |-> f, param |-> p, t_param |-> tp,
     proc_body |-> pb, let_body |-> lb]
Proc(p, tp, b) == [tag |-> "Proc", param |-> p, t_param |-> tp, body |-> b]
AssertExpr(line, t, b) == [tag |-> "Assert", line |-> line, test |-> t, body |-> b]
Call(p, a) == [tag |-> "Call", proc |-> p, arg |-> a]

(***************************************************************************)
(* runtime.rs: values and operations.                                      *)
(***************************************************************************)
Integer(x) == [tag |-> "Integer", n |-> x, b |-> FALSE, start |-> 0, captures |-> <<>>]
Boolean(x) == [tag |-> "Boolean", n |-> 0, b |-> x, start |-> 0, captures |-> <<>>]
Procedure(s, c) == [tag |-> "Procedure", n |-> 0, b |-> FALSE, start |-> s, captures |-> c]
NoValue == [tag |-> "None", n |-> 0, b |-> FALSE, start |-> 0, captures |-> <<>>]

MkOp(o, v, a, k, c) == [op |-> o, value |-> v, addr |-> a, k |-> k, caps |-> c]
\* Assert { line }: the line is carried in field k
OpAssert(line) == MkOp("Assert", NoValue, 0, line, <<>>)
OpCall == MkOp("Call", NoValue, 0, 0, <<>>)
OpDiff == MkOp("Diff", NoValue, 0, 0, <<>>)
OpIsZero == MkOp("IsZero", NoValue, 0, 0, <<>>)
OpJump(a) == MkOp("Jump", NoValue, a, 0, <<>>)
OpJumpTrue(a) == MkOp("JumpTrue", NoValue, a, 0, <<>>)
OpMakeProc(a, c) == MkOp("MakeProc", NoValue, a, 0, c)
OpNegate == MkOp("Negate", NoValue, 0, 0, <<>>)
OpPushCapture(k) == MkOp("PushCapture", NoValue, 0, k, <<>>)
OpPushGlobal(k) == MkOp("PushGlobal", NoValue, 0, k, <<>>)
OpPushLocal(k) == MkOp("PushLocal", NoValue, 0, k, <<>>)
OpPushValue(v) == MkOp("PushValue", v, 0, 0, <<>>)
OpReturn == MkOp("Return", NoValue, 0, 0, <<>>)
OpTailCall == MkOp("TailCall", NoValue, 0, 0, <<>>)

as_int(v) == IF v.tag = "Integer" THEN "" ELSE "value is not an integer"
as_bool(v) == IF v.tag = "Boolean" THEN "" ELSE "value is not a boolean"
as_proc(v) == IF v.tag = "Procedure" THEN "" ELSE "value is not a procedure"

(***************************************************************************)
(* table.rs: a table of names and associated values (newest last).         *)
(***************************************************************************)
NoneU == [some |-> FALSE, v |-> 0]
SomeU(x) == [some |-> TRUE, v |-> x]

Last(S) == CHOOSE i \in S : \A j \in S : j <= i

table_push(items, name, value) == Append(items, [name |-> name, value |-> value])

table_has(items, name) == \E i \in 1..Len(items) : items[i].name = name

table_lookup(items, name) ==
    items[Last({i \in 1..Len(items) : items[i].name = name})].value

(***************************************************************************)
(* type_checking.rs: let_type_of_expr.  The result is Ok(t) or Err(msg);   *)
(* tenv is restored by every successful call, so it is passed by value.    *)
(***************************************************************************)
TOk(t) == [ok |-> TRUE, t |-> t, msg |-> ""]
TErr(m) == [ok |-> FALSE, t |-> TInt, msg |-> m]

RECURSIVE let_type_of_expr(_, _)
let_type_of_expr(expr, tenv) ==
    CASE expr.tag = "Assert" ->
            LET t_guard == let_type_of_expr(expr.test, tenv) IN
            IF ~t_guard.ok THEN t_guard
            ELSE IF t_guard.t.tag # "Bool" THEN TErr("assert guard must be type bool")
            ELSE let_type_of_expr(expr.body, tenv)
      [] expr.tag = "Call" ->
            LET t_proc == let_type_of_expr(expr.proc, tenv) IN
            IF ~t_proc.ok THEN t_proc
            ELSE IF t_proc.t.tag # "Proc" THEN TErr("call expects proc")
            ELSE LET t_arg == let_type_of_expr(expr.arg, tenv) IN
                 IF ~t_arg.ok THEN t_arg
                 ELSE IF ~type_eq(t_proc.t.t_param, t_arg.t)
                      THEN TErr("call argument type")
                 ELSE TOk(t_proc.t.t_result)
      [] expr.tag = "LiteralInt" -> TOk(TInt)
      [] expr.tag = "Subtract" ->
            LET t1 == let_type_of_expr(expr.left, tenv) IN
            IF ~t1.ok THEN t1
            ELSE IF t1.t.tag # "Int" THEN TErr("-() first argument expects int")
            ELSE LET t2 == let_type_of_expr(expr.right, tenv) IN
                 IF ~t2.ok THEN t2
                 ELSE IF t2.t.tag # "Int" THEN TErr("-() second argument expects int")
                 ELSE TOk(TInt)
      [] expr.tag = "If" ->
            LET t_test == let_type_of_expr(expr.test, tenv) IN
            IF ~t_test.ok THEN t_test
            ELSE IF t_test.t.tag # "Bool" THEN TErr("if test expects bool")
            ELSE LET t_consequent == let_type_of_expr(expr.consequent, tenv) IN
                 IF ~t_consequent.ok THEN t_consequent
                 ELSE LET t_alternate == let_type_of_expr(expr.alternate, tenv) IN
                      IF ~t_alternate.ok THEN t_alternate
                      ELSE IF ~type_eq(t_consequent.t, t_alternate.t)
                           THEN TErr("if branches expect matching types")
                      ELSE t_consequent
      [] expr.tag = "IsZero" ->
            LET t == let_type_of_expr(expr.e, tenv) IN
            IF ~t.ok THEN t
            ELSE IF t.t.tag = "Int" THEN TOk(TBool)
            ELSE TErr("zero? expects int")
      [] expr.tag = "Let" ->
            LET t_expr == let_type_of_expr(expr.expr, tenv) IN
            IF ~t_expr.ok THEN t_expr
            ELSE let_type_of_expr(expr.body, table_push(tenv, expr.name, t_expr.t))
      [] expr.tag = "LiteralBool" -> TOk(TBool)
      [] expr.tag = "Proc" ->
            LET t_body == let_type_of_expr(expr.body,
                              table_push(tenv, expr.param, expr.t_param)) IN
            IF ~t_body.ok THEN t_body
            ELSE TOk(TProc(expr.t_param, t_body.t))
      [] expr.tag = "LetRec" ->
            LET t_proc == TProc(expr.t_param, expr.t_result)
                tenv1 == table_push(tenv, expr.name, t_proc)
                tenv2 == table_push(tenv1, expr.param, expr.t_param)
                t_body == let_type_of_expr(expr.proc_body, tenv2) IN
            IF ~t_body.ok THEN t_body
            ELSE IF ~type_eq(t_body.t, expr.t_result)
                 THEN TErr("letrec result type")
            ELSE let_type_of_expr(expr.let_body, tenv1)
      [] expr.tag = "Name" ->
            IF table_has(tenv, expr.name)
            THEN TOk(table_lookup(tenv, expr.name))
            ELSE TErr("undefined name")

let_type_of(expr) == let_type_of_expr(expr, <<>>)

(***************************************************************************)
(* name_analysis.rs / compiler.rs: BindingTable, CaptureTable, Frame and   *)
(* CompilerState (the two files hold the same definitions).                *)
(***************************************************************************)
NoLocals == [some |-> FALSE, bindings |-> <<>>]
SomeLocals(b) == [some |-> TRUE, bindings |-> b]

\* BindingTable::lookup
bindings_lookup(bindings, lookup_name) ==
    LET hits == {i \in 1..Len(bindings) : bindings[i].name = lookup_name} IN
    IF hits = {} THEN NoneU ELSE SomeU(bindings[Last(hits)].stack_index)

\* fn lookup(bindings: &Option<BindingTable>, ..)
lookup(locals, lookup_name) ==
    IF locals.some THEN bindings_lookup(locals.bindings, lookup_name) ELSE NoneU

\* CaptureTable::lookup: the offset (0-based) of the newest entry with the name
captures_lookup(caps, lookup_name) ==
    LET hits == {i \in 1..Len(caps) : caps[i].name = lookup_name} IN
    IF hits = {} THEN NoneU ELSE SomeU(Last(hits) - 1)

\* CompilerState::new, with the output buffers of the two passes
NewState ==
    [stack_top |-> 0, save_stack |-> <<>>, globals |-> <<>>, locals |-> NoLocals,
     call_stack |-> <<>>, err |-> "",
     ops |-> <<>>, tops |-> <<>>, log |-> <<>>, procs |-> <<>>, scopes |-> <<>>]

call_depth(st) == Len(st.call_stack)

push(st) == [st EXCEPT !.stack_top = @ + 1]

pop(st) == [st EXCEPT !.stack_top = @ - 1]

save_stack(st) == [st EXCEPT !.save_stack = Append(@, st.stack_top)]

\* mutation of restore_stack: the saved height is dropped, not restored
restore_stack_kept(st) ==
    [st EXCEPT !.save_stack = SubSeq(@, 1, Len(@) - 1)]

restore_stack(st) ==
    [st EXCEPT !.stack_top = st.save_stack[Len(st.save_stack)],
               !.save_stack = SubSeq(@, 1, Len(@) - 1)]

\* current_bindings().push(name, stack_top - 1)
begin_scope(st, name) ==
    LET b == [name |-> name, stack_index |-> st.stack_top - 1] IN
    IF st.locals.some
    THEN [st EXCEPT !.locals.bindings = Append(@, b)]
    ELSE [st EXCEPT !.globals = Append(@, b),
                    !.scopes = Append(@, [k |-> b.stack_index,
                                          from |-> Len(st.ops),
                                          ifs |-> Len(st.save_stack)])]

\* mutation of end_scope: the binding stays in the table
end_scope_kept(st) == st

end_scope(st) ==
    IF st.locals.some
    THEN [st EXCEPT !.locals.bindings = SubSeq(@, 1, Len(@) - 1)]
    ELSE [st EXCEPT !.globals = SubSeq(@, 1, Len(@) - 1)]

\* mutation of begin_proc: slot 0 is bound to no name
begin_proc_anonymous(st, name, var) ==
    LET frame == [stack_top |-> st.stack_top, locals |-> st.locals, captures |-> <<>>]
        s0 == [st EXCEPT !.stack_top = 0, !.locals = SomeLocals(<<>>),
                         !.call_stack = Append(@, frame)]
    IN begin_scope(push(begin_scope(push(s0), "")), var)

begin_proc(st, name, var) ==
    LET frame == [stack_top |-> st.stack_top, locals |-> st.locals, captures |-> <<>>]
        s0 == [st EXCEPT !.stack_top = 0, !.locals = SomeLocals(<<>>),
                         !.call_stack = Append(@, frame)]
    IN begin_scope(push(begin_scope(push(s0), name)), var)

\* end_proc: the state after the pop; the popped frame's captures are read by
\* the caller from the state before (proc_captures)
end_proc(st) ==
    LET frame == st.call_stack[Len(st.call_stack)] IN
    [st EXCEPT !.call_stack = SubSeq(@, 1, Len(@) - 1),
               !.stack_top = frame.stack_top,
               !.locals = frame.locals]

proc_captures(st) ==
    LET caps == st.call_stack[Len(st.call_stack)].captures IN
    [i \in 1..Len(caps) |-> [is_local |-> caps[i].is_local, index |-> caps[i].index]]

\* the names of the captures of the frame end_proc pops
capture_names(st) ==
    LET caps == st.call_stack[Len(st.call_stack)].captures IN
    [i \in 1..Len(caps) |-> caps[i].name]

\* the names bound as locals of the procedures around the current position
local_names(st) ==
    {st.locals.bindings[i].name : i \in 1..Len(st.locals.bindings)}
    \cup UNION {{st.call_stack[d].locals.bindings[i].name :
                    i \in 1..Len(st.call_stack[d].locals.bindings)} :
                d \in 1..Len(st.call_stack)}

\* mutation of lookup_local: the locals are never consulted
lookup_local_skipped(st, lookup_name) == NoneU

lookup_local(st, lookup_name) == lookup(st.locals, lookup_name)

\* CompilerState::capture at frame index d (1-based): the state with the
\* capture tables updated, and the capture offset found
RECURSIVE capture(_, _, _)
capture(st, lookup_name, d) ==
    LET frame == st.call_stack[d]
        in_locals == lookup(frame.locals, lookup_name)
        in_caps == captures_lookup(frame.captures, lookup_name)
    IN
    IF in_locals.some
    THEN [st |-> [st EXCEPT !.call_stack[d].captures =
                      Append(@, [name |-> lookup_name, is_local |-> TRUE,
                                 index |-> in_locals.v])],
          r |-> SomeU(Len(frame.captures))]
    ELSE IF in_caps.some
    THEN [st |-> st, r |-> in_caps]
    ELSE IF d > 1
    THEN LET outer == capture(st, lookup_name, d - 1) IN
         IF outer.r.some
         THEN [st |-> [outer.st EXCEPT !.call_stack[d].captures =
                           Append(@, [name |-> lookup_name, is_local |-> FALSE,
                                      index |-> outer.r.v])],
               r |-> SomeU(Len(outer.st.call_stack[d].captures))]
         ELSE [st |-> st, r |-> NoneU]
    ELSE [st |-> st, r |-> NoneU]

\* mutation of lookup_capture: the enclosing procedures are never searched
lookup_capture_none(st, lookup_name) == [st |-> st, r |-> NoneU]

lookup_capture(st, lookup_name) ==
    IF call_depth(st) > 0
    THEN capture(st, lookup_name, call_depth(st))
    ELSE [st |-> st, r |-> NoneU]

(***************************************************************************)
(* name_analysis.rs: the nameless AST and resolve_names_expr.              *)
(* parser::Expr::Const is ast LiteralInt / LiteralBool, Diff is Subtract,  *)
(* Var is Name.  A call returns the state and the nameless expression; an  *)
(* Err leaves st.err set and is passed up unchanged (the `?` operator).    *)
(* st.log records, for every expression resolved, stack_top before and     *)
(* after it (for an If also after each branch).                            *)
(***************************************************************************)
N_Const(v) == [tag |-> "Const", value |-> v]
N_Local(k) == [tag |-> "Local", k |-> k]
N_Capture(k) == [tag |-> "Capture", k |-> k]
N_Global(k) == [tag |-> "Global", k |-> k]
N_Diff(l, r) == [tag |-> "Diff", lhs |-> l, rhs |-> r]
N_IsZero(e) == [tag |-> "IsZero", e |-> e]
N_If(g, c, a) == [tag |-> "If", guard |-> g, consq |-> c, alt |-> a]
N_Let(r, b) == [tag |-> "Let", rhs |-> r, body |-> b]
N_Proc(b, caps) == [tag |-> "Proc", body |-> b, captures |-> caps]
N_Call(p, a) == [tag |-> "Call", proc |-> p, arg |-> a]
N_Assert(line, t, b) == [tag |-> "Assert", line |-> line, test |-> t, body |-> b]
N_None == [tag |-> "None"]

literal_value(expr) ==
    IF expr.tag = "LiteralInt" THEN Integer(expr.n) ELSE Boolean(expr.b)

Failed(st, msg) == [st |-> [st EXCEPT !.err = msg], e |-> N_None]

\* the frames of cs1 are those of cs0, each capture table with the entries
\* it had and possibly more after them
FramesGrown(cs0, cs1) ==
    /\ Len(cs1) = Len(cs0)
    /\ \A d \in 1..Len(cs0) :
          /\ cs1[d].stack_top = cs0[d].stack_top
          /\ cs1[d].locals = cs0[d].locals
          /\ Len(cs1[d].captures) >= Len(cs0[d].captures)
          /\ SubSeq(cs1[d].captures, 1, Len(cs0[d].captures)) = cs0[d].captures

Resolved(expr, st0, st1, e, alt_top, consq_top) ==
    [st |-> [st1 EXCEPT !.log = Append(@, [tag |-> expr.tag,
                                           tables |-> /\ st1.globals = st0.globals
                                                      /\ st1.locals = st0.locals
                                                      /\ st1.save_stack = st0.save_stack,
                                           frames |-> st1.call_stack = st0.call_stack,
                                           grown |-> FramesGrown(st0.call_stack,
                                                                 st1.call_stack),
                                           before |-> st0.stack_top,
                                           after |-> st1.stack_top,
                                           alt |-> alt_top,
                                           consq |-> consq_top,
                                           depth |-> Len(st0.call_stack),
                                           name |-> IF expr.tag \in {"Name", "LetRec"}
                                                    THEN expr.name ELSE "",
                                           kind |-> e.tag,
                                           k |-> IF expr.tag = "Name" THEN e.k ELSE 0])],
     e |-> e]

RECURSIVE resolve_names_expr(_, _)
\* Assert { line, test, body } (name_analysis.rs has no arm for it): the test
\* is resolved and popped, then the body; line and order are preserved
resolve_names_assert(expr, st) ==
    LET t == resolve_names_expr(expr.test, st) IN
    IF t.st.err # "" THEN t ELSE
    LET b == resolve_names_expr(expr.body, pop(t.st)) IN
    IF b.st.err # "" THEN b ELSE
    Resolved(expr, st, b.st, N_Assert(expr.line, t.e, b.e), 0, 0)

\* resolve_names_proc(name, var, body, state)
resolve_names_proc(name, var, body, st) ==
    LET b == resolve_names_expr(body, begin_proc(st, name, var)) IN
    IF b.st.err # "" THEN b
    ELSE [st |-> [push(end_proc(b.st)) EXCEPT !.procs =
                     Append(@, [name |-> name, var |-> var,
                                captures |-> capture_names(b.st),
                                recipe |-> proc_captures(b.st),
                                depth |-> Len(st.call_stack),
                                near |-> st.locals,
                                enclosing |-> local_names(st),
                                body |-> body])],
          e |-> N_Proc(b.e, proc_captures(b.st))]

resolve_names_expr(expr, st) ==
    CASE expr.tag = "Assert" -> resolve_names_assert(expr, st)
      [] expr.tag = "Call" ->
            LET p == resolve_names_expr(expr.proc, st) IN
            IF p.st.err # "" THEN p ELSE
            LET a == resolve_names_expr(expr.arg, p.st) IN
            IF a.st.err # "" THEN a ELSE
            Resolved(expr, st, push(pop(pop(a.st))), N_Call(p.e, a.e), 0, 0)
      [] expr.tag \in {"LiteralInt", "LiteralBool"} ->
            Resolved(expr, st, push(st), N_Const(literal_value(expr)), 0, 0)
      [] expr.tag = "Subtract" ->
            LET l == resolve_names_expr(expr.left, st) IN
            IF l.st.err # "" THEN l ELSE
            LET r == resolve_names_expr(expr.right, l.st) IN
            IF r.st.err # "" THEN r ELSE
            Resolved(expr, st, push(pop(pop(r.st))), N_Diff(l.e, r.e), 0, 0)
      [] expr.tag = "If" ->
            LET g == resolve_names_expr(expr.test, st) IN
            IF g.st.err # "" THEN g ELSE
            LET a == resolve_names_expr(expr.alternate, save_stack(pop(g.st))) IN
            IF a.st.err # "" THEN a ELSE
            LET c == resolve_names_expr(expr.consequent, restore_stack(a.st)) IN
            IF c.st.err # "" THEN c ELSE
            Resolved(expr, st, c.st, N_If(g.e, c.e, a.e),
                     a.st.stack_top, c.st.stack_top)
      [] expr.tag = "IsZero" ->
            LET e == resolve_names_expr(expr.e, st) IN
            IF e.st.err # "" THEN e ELSE
            Resolved(expr, st, push(pop(e.st)), N_IsZero(e.e), 0, 0)
      [] expr.tag = "Let" ->
            LET r == resolve_names_expr(expr.expr, st) IN
            IF r.st.err # "" THEN r ELSE
            LET b == resolve_names_expr(expr.body, begin_scope(r.st, expr.name)) IN
            IF b.st.err # "" THEN b ELSE
            Resolved(expr, st, end_scope(b.st), N_Let(r.e, b.e), 0, 0)
      [] expr.tag = "LetRec" ->
            LET p == resolve_names_proc(expr.name, expr.param, expr.proc_body, st) IN
            IF p.st.err # "" THEN p ELSE
            LET b == resolve_names_expr(expr.let_body, begin_scope(p.st, expr.name)) IN
            IF b.st.err # "" THEN b ELSE
            Resolved(expr, st, end_scope(b.st), N_Let(p.e, b.e), 0, 0)
      [] expr.tag = "Proc" ->
            LET p == resolve_names_proc("", expr.param, expr.body, st) IN
            IF p.st.err # "" THEN p ELSE
            Resolved(expr, st, p.st, p.e, 0, 0)
      [] expr.tag = "Name" ->
            LET loc == lookup_local(st, expr.name)
                cap == lookup_capture(st, expr.name)
                glo == bindings_lookup(st.globals, expr.name)
            IN
            IF loc.some THEN Resolved(expr, st, push(st), N_Local(loc.v), 0, 0)
            ELSE IF cap.r.some
                 THEN Resolved(expr, st, push(cap.st), N_Capture(cap.r.v), 0, 0)
            ELSE IF glo.some
                 THEN Resolved(expr, st, push(cap.st), N_Global(glo.v), 0, 0)
            ELSE Failed(cap.st, "undefined name: " \o expr.name)

resolve_names(expr) == resolve_names_expr(expr, NewState)

(***************************************************************************)
(* compiler.rs: Chunk and compile_expr.  Addresses are 0-based; ops[i + 1]  *)
(* is the op at address i.  st.tops records stack_top at each emit.        *)
(***************************************************************************)
emit(st, op) ==
    [st EXCEPT !.ops = Append(@, op), !.tops = Append(@, st.stack_top)]

next_address(st) == Len(st.ops)

\* mutation of patch: the placeholder target is kept
patch_skipped(st, patch_at, target) == st

\* mutation of patch: the jump lands one op past the target
patch_one_past(st, patch_at, target) ==
    IF st.ops[patch_at + 1].op = "Jump"
    THEN [st EXCEPT !.ops[patch_at + 1] = OpJump(target + 1)]
    ELSE IF st.ops[patch_at + 1].op = "JumpTrue"
    THEN [st EXCEPT !.ops[patch_at + 1] = OpJumpTrue(target + 1)]
    ELSE st

\* mutation of patch: the jump is patched with its own address
patch_to_self(st, patch_at, target) ==
    IF st.ops[patch_at + 1].op = "Jump"
    THEN [st EXCEPT !.ops[patch_at + 1] = OpJump(patch_at)]
    ELSE IF st.ops[patch_at + 1].op = "JumpTrue"
    THEN [st EXCEPT !.ops[patch_at + 1] = OpJumpTrue(patch_at)]
    ELSE st

patch(st, patch_at, target) ==
    IF st.ops[patch_at + 1].op = "Jump"
    THEN [st EXCEPT !.ops[patch_at + 1] = OpJump(target)]
    ELSE IF st.ops[patch_at + 1].op = "JumpTrue"
    THEN [st EXCEPT !.ops[patch_at + 1] = OpJumpTrue(target)]
    ELSE st

capture_ops(st) == proc_captures(st)

\* the position in which the branches of an If are compiled
if_branch_pos(expr_pos) == "Tail"

\* the position in which the body of a Let / LetRec is compiled
let_body_pos(expr_pos) == "Tail"

\* mutation of call_op: no call is emitted as a TailCall
call_op_never_tail(expr_pos, depth) == OpCall

\* mutation of call_op: a call in tail position is a TailCall at top level too
call_op_tail_at_top_level(expr_pos, depth) ==
    IF expr_pos = "Tail" THEN OpTailCall ELSE OpCall

\* the op a Call expression emits
call_op(expr_pos, depth) ==
    IF expr_pos = "Tail" /\ depth > 0 THEN OpTailCall ELSE OpCall

\* mutation of make_proc_target: the address after the MakeProc
make_proc_target_after(make_proc_index) == make_proc_index + 1

\* the target the Jump over a procedure body is patched with
make_proc_target(make_proc_index) == make_proc_index

RECURSIVE compile_expr(_, _, _)
\* the shared tail of the LetRec and Proc arms: Jump, body, Return, MakeProc
\* mutation of body_start: the procedure starts at the Jump before its body
body_start_at_jump(st) == Len(st.ops) - 1

\* let start = chunk.next_address(), after the Jump is emitted
body_start(st) == next_address(st)

compile_proc(name, var, body, st) ==
    LET branch_make_proc == next_address(st)
        s1 == emit(st, OpJump(0))
        start == body_start(s1)
        s2 == compile_expr(body, "Tail", begin_proc(s1, name, var))
    IN
    IF s2.err # "" THEN s2 ELSE
    LET s3 == emit(s2, OpReturn)
        make_proc_index == next_address(s3)
        s4 == emit(end_proc(s3), OpMakeProc(start, capture_ops(s3)))
    IN patch(push(s4), branch_make_proc, make_proc_target(make_proc_index))

\* Assert { line, test, body } (compiler.rs has no arm for it): the test as
\* an operand, Assert { line }, the body in the position of the Assert
compile_assert(expr, expr_pos, st) ==
    LET s1 == compile_expr(expr.test, "Operand", st) IN
    IF s1.err # "" THEN s1 ELSE
    compile_expr(expr.body, expr_pos, emit(pop(s1), OpAssert(expr.line)))

compile_expr(expr, expr_pos, st) ==
    CASE expr.tag = "Assert" -> compile_assert(expr, expr_pos, st)
      [] expr.tag = "Call" ->
            LET s1 == compile_expr(expr.proc, "Operand", st) IN
            IF s1.err # "" THEN s1 ELSE
            LET s2 == compile_expr(expr.arg, "Operand", s1) IN
            IF s2.err # "" THEN s2 ELSE
            LET s3 == pop(pop(s2)) IN
            push(emit(s3, call_op(expr_pos, call_depth(s3))))
      [] expr.tag \in {"LiteralInt", "LiteralBool"} ->
            push(emit(st, OpPushValue(literal_value(expr))))
      [] expr.tag = "Subtract" ->
            LET s1 == compile_expr(expr.left, "Operand", st) IN
            IF s1.err # "" THEN s1 ELSE
            LET s2 == compile_expr(expr.right, "Operand", s1) IN
            IF s2.err # "" THEN s2 ELSE
            push(emit(pop(pop(s2)), OpDiff))
      [] expr.tag = "If" ->
            LET s1 == compile_expr(expr.test, "Operand", st) IN
            IF s1.err # "" THEN s1 ELSE
            LET s2 == pop(s1)
                branch_to_consq == next_address(s2)
                s3 == save_stack(emit(s2, OpJumpTrue(0)))
                s4 == compile_expr(expr.alternate, if_branch_pos(expr_pos), s3)
            IN
            IF s4.err # "" THEN s4 ELSE
            LET branch_to_end == next_address(s4)
                s5 == restore_stack(emit(s4, OpJump(0)))
                consq_start == next_address(s5)
                s6 == compile_expr(expr.consequent, if_branch_pos(expr_pos), s5)
            IN
            IF s6.err # "" THEN s6 ELSE
            LET if_end == next_address(s6) IN
            patch(patch(s6, branch_to_consq, consq_start), branch_to_end, if_end)
      [] expr.tag = "IsZero" ->
            LET s1 == compile_expr(expr.e, "Operand", st) IN
            IF s1.err # "" THEN s1 ELSE
            push(emit(pop(s1), OpIsZero))
      [] expr.tag = "Let" ->
            LET s1 == compile_expr(expr.expr, "Operand", st) IN
            IF s1.err # "" THEN s1 ELSE
            LET s2 == compile_expr(expr.body, let_body_pos(expr_pos),
                                   begin_scope(s1, expr.name)) IN
            IF s2.err # "" THEN s2 ELSE
            end_scope(s2)
      [] expr.tag = "LetRec" ->
            LET s1 == compile_proc(expr.name, expr.param, expr.proc_body, st) IN
            IF s1.err # "" THEN s1 ELSE
            LET s2 == compile_expr(expr.let_body, let_body_pos(expr_pos),
                                   begin_scope(s1, expr.name)) IN
            IF s2.err # "" THEN s2 ELSE
            end_scope(s2)
      [] expr.tag = "Proc" ->
            compile_proc("", expr.param, expr.body, st)
      [] expr.tag = "Name" ->
            LET loc == lookup_local(st, expr.name)
                cap == lookup_capture(st, expr.name)
                glo == bindings_lookup(st.globals, expr.name)
            IN
            IF loc.some THEN push(emit(st, OpPushLocal(loc.v)))
            ELSE IF cap.r.some THEN push(emit(cap.st, OpPushCapture(cap.r.v)))
            ELSE IF glo.some THEN push(emit(cap.st, OpPushGlobal(glo.v)))
            ELSE [cap.st EXCEPT !.err = "undefined name: " \o expr.name]

compile(expr) == compile_expr(expr, "Tail", NewState)

(***************************************************************************)
(* The programs the model runs.                                            *)
(***************************************************************************)
IntToInt == TProc(TInt, TInt)
Id == Proc("x", TInt, Name("x"))

\* letrec int loop(n: int) if zero?(n) then 0 else (loop -(n, 1)) in (loop N)
LoopProgram(N) ==
    LetRec(TInt, "loop", "n", TInt,
           If(IsZero(Name("n")), LiteralInt(0),
              Call(Name("loop"), Subtract(Name("n"), LiteralInt(1)))),
           Call(Name("loop"), LiteralInt(N)))

\* let mk = proc (x: int) proc (y: int) -(x, y) in ((mk 10) 3)
MkProgram ==
    Let("mk", Proc("x", TInt, Proc("y", TInt, Subtract(Name("x"), Name("y")))),
        Call(Call(Name("mk"), LiteralInt(10)), LiteralInt(3)))

\* expressions of type int over f : (int -> int) and a : int (a is 1)
Forms ==
    << LiteralInt(2),
       Name("a"),
       Subtract(Name("a"), LiteralInt(3)),
       If(IsZero(Name("a")), LiteralInt(3), LiteralInt(4)),
       Let("y", LiteralInt(2), Subtract(Name("y"), Name("a"))),
       LetRec(TInt, "r", "n", TInt,
              If(IsZero(Name("n")), Name("a"),
                 Call(Name("r"), Subtract(Name("n"), LiteralInt(1)))),
              Call(Name("r"), LiteralInt(1))),
       Call(Name("f"), LiteralInt(3)),
       Call(Proc("x", TInt, Subtract(Name("x"), Name("a"))), LiteralInt(4)),
       If(IsZero(LiteralInt(0)), Call(Name("f"), LiteralInt(5)),
          Let("y", LiteralInt(2), Name("y"))),
       If(IsZero(Name("a")), LiteralInt(3),
          Let("y", LiteralInt(2), Subtract(Name("y"), LiteralInt(4)))) >>

\* expressions of type (int -> int) over f and a
OperatorForms ==
    << Name("f"),
       Proc("x", TInt, Subtract(Name("x"), Name("a"))),
       If(IsZero(Name("a")), Name("f"), Proc("x", TInt, Subtract(Name("x"), LiteralInt(1)))),
       Let("g", Id, Name("g")),
       LetRec(TInt, "r", "n", TInt, Name("n"), Name("r")),
       Call(Proc("z", TInt, Proc("x", TInt, Subtract(Name("x"), Name("z")))),
            LiteralInt(2)) >>

\* the places an expression e of type int is put in
Contexts(e) ==
    << e,
       Subtract(e, LiteralInt(1)),
       Subtract(LiteralInt(5), e),
       Call(Name("f"), e),
       Let("b", e, Subtract(Name("b"), Name("a"))),
       If(IsZero(e), Name("a"), LiteralInt(7)),
       Let("b", If(IsZero(Name("a")), LiteralInt(6), e),
           Proc("u", TInt, Call(Name("f"), Name("b")))) >>

Context(k, e) == Contexts(e)[k]

NContexts == Len(Contexts(LiteralInt(0)))

\* the bodies put around it: f and a bound at top level, as locals of a
\* procedure, or a bound by an enclosing procedure
Wrappers(e) ==
    << Let("f", Id, Let("a", LiteralInt(1), e)),
       Call(Proc("p", TInt, Let("f", Id, Let("a", LiteralInt(1), e))),
            LiteralInt(0)),
       Let("f", Id,
           Call(Call(Proc("a", TInt, Proc("q", TInt, e)), LiteralInt(1)),
                LiteralInt(0))) >>

Wrapper(w, e) == Wrappers(e)[w]

NWrappers == Len(Wrappers(LiteralInt(0)))

ContextPrograms ==
    [i \in 1..(NWrappers * NContexts * Len(Forms)) |->
        LET w == ((i - 1) \div (NContexts * Len(Forms))) + 1
            k == (((i - 1) \div Len(Forms)) % NContexts) + 1
            f == ((i - 1) % Len(Forms)) + 1
        IN Wrapper(w, Context(k, Forms[f]))]

CallPrograms ==
    [i \in 1..(NWrappers * Len(OperatorForms) * Len(Forms)) |->
        LET w == ((i - 1) \div (Len(OperatorForms) * Len(Forms))) + 1
            o == (((i - 1) \div Len(Forms)) % Len(OperatorForms)) + 1
            f == ((i - 1) % Len(Forms)) + 1
        IN Wrapper(w, Call(OperatorForms[o], Forms[f]))]

LoopPrograms == [n \in 1..(MaxN + 1) |-> LoopProgram(n - 1)]

\* programs the type checker rejects
RejectedPrograms ==
    << Call(LiteralInt(1), LiteralInt(2)),
       Subtract(Name("u"), LiteralInt(1)),
       If(LiteralInt(0), LiteralInt(1), LiteralInt(2)) >>

\* let c = e in (proc (z: int) c  0) inside a procedure: the result is the
\* value the inner procedure captured for c
CaptureProgram(e) ==
    Wrapper(2, Let("c", e, Call(Proc("z", TInt, Name("c")), LiteralInt(0))))

CaptureForms == {1, 2, 3, 4, 5, 10}

CapturePrograms == [i \in 1..Len(Forms) |-> CaptureProgram(Forms[i])]

\* assert zero?(-(3, d)) then 42, on line 1
AssertProgram(d) ==
    AssertExpr(1, IsZero(Subtract(LiteralInt(3), LiteralInt(d))), LiteralInt(42))

AssertPrograms ==
    << AssertProgram(3),
       AssertProgram(4),
       Wrapper(1, AssertExpr(2, IsZero(Subtract(Name("a"), LiteralInt(1))),
                         Call(Name("f"), Name("a")))),
       Wrapper(2, AssertExpr(3, IsZero(Name("a")), Call(Name("f"), Name("a")))),
       Wrapper(2, Subtract(LiteralInt(5),
                           AssertExpr(4, IsZero(LiteralInt(0)), Name("a")))),
       Wrapper(3, AssertExpr(5, IsZero(Subtract(Name("a"), LiteralInt(1))),
                         AssertExpr(6, IsZero(Name("a")), LiteralInt(9)))),
       Wrapper(3, Call(Name("f"), AssertExpr(7, IsZero(LiteralInt(0)), Name("a")))),
       AssertExpr(8, LiteralInt(0), LiteralInt(1)) >>

\* letrec int sum(n: int) = if zero?(n) then 0
\*                           else -(n, -(0, (sum -(n, 1)))) in (sum N)
SumProgram(N) ==
    LetRec(TInt, "sum", "n", TInt,
           If(IsZero(Name("n")), LiteralInt(0),
              Subtract(Name("n"),
                       Subtract(LiteralInt(0),
                                Call(Name("sum"), Subtract(Name("n"), LiteralInt(1)))))),
           Call(Name("sum"), LiteralInt(N)))

\* names bound at top level and again in a procedure
ShadowPrograms ==
    << SumProgram(5),
       Let("x", LiteralInt(4),
           Let("y", Subtract(Name("x"), LiteralInt(1)), Subtract(Name("y"), Name("x")))),
       Let("x", LiteralInt(1),
           Call(Proc("x", TInt, Subtract(Name("x"), LiteralInt(1))), Name("x"))),
       Let("x", LiteralInt(1),
           Call(Call(Proc("x", TInt, Proc("z", TInt, Subtract(Name("x"), Name("z")))),
                     LiteralInt(2)), LiteralInt(3))),
       Let("x", LiteralInt(1),
           Call(Proc("z", TInt, Let("x", Name("z"), Subtract(Name("x"), LiteralInt(1)))),
                Name("x"))),
       Let("x", LiteralInt(1),
           Call(Call(Proc("y", TInt,
                          Proc("z", TInt,
                               Subtract(Name("x"), Subtract(Name("y"), Name("z"))))),
                     LiteralInt(2)), LiteralInt(3))),
       Let("x", LiteralInt(1),
           Call(Call(Call(Proc("y", TInt,
                               Proc("z", TInt,
                                    Proc("u", TInt,
                                         Subtract(Name("y"),
                                                  Subtract(Name("x"), Name("y")))))),
                          LiteralInt(2)), LiteralInt(3)), LiteralInt(4))),
       Let("x", LiteralInt(1),
           Let("g", Proc("z", TInt, Subtract(Name("z"), Name("x"))),
               Let("x", LiteralInt(7), Call(Name("g"), Name("x"))))) >>

\* (((proc (x) proc (y) proc (z) if zero?(z) then x else y  1) 2) n)
PickProgram(n) ==
    Call(Call(Call(Proc("x", TInt, Proc("y", TInt, Proc("z", TInt,
                       If(IsZero(Name("z")), Name("x"), Name("y"))))),
                   LiteralInt(1)), LiteralInt(2)), LiteralInt(n))

\* an If whose branches refer to variables of enclosing procedures, bind
\* names, or refer to locals and globals only
SwapPrograms ==
    << PickProgram(3),
       PickProgram(0),
       Call(Proc("y", TInt,
                 Call(Proc("z", TInt,
                           If(IsZero(Name("z")), Name("y"), Subtract(Name("y"), Name("z")))),
                      LiteralInt(0))),
            LiteralInt(5)),
       Wrapper(2, If(IsZero(Name("a")), Let("y", LiteralInt(2), Name("y")),
                     Let("y", LiteralInt(3), Subtract(Name("y"), LiteralInt(1))))),
       Wrapper(1, If(IsZero(Name("a")), Let("y", LiteralInt(2), Name("y")),
                     Let("y", LiteralInt(3), Subtract(Name("y"), LiteralInt(1))))),
       Wrapper(3, If(IsZero(Name("q")), Subtract(Name("q"), LiteralInt(1)),
                     Call(Name("f"), Name("q")))) >>

\* let b = if zero?(a) then let y = 2 in y else 6 in -(b, 1): with a = 1
\* the branch taken is not the one compiled last
UnbalancedPrograms ==
    [w \in 1..NWrappers |->
        Wrapper(w, Let("b", If(IsZero(Name("a")),
                               Let("y", LiteralInt(2), Name("y")), LiteralInt(6)),
                       Subtract(Name("b"), LiteralInt(1))))]

\* letrec int r(n: int) = if zero?(n) then 0
\*                         else (proc (z: int) (r z)  -(n, 1)) in (r 2):
\* the procedure nested in r captures r
NestedProgram ==
    LetRec(TInt, "r", "n", TInt,
           If(IsZero(Name("n")), LiteralInt(0),
              Call(Proc("z", TInt, Call(Name("r"), Name("z"))),
                   Subtract(Name("n"), LiteralInt(1)))),
           Call(Name("r"), LiteralInt(2)))

NestedPrograms == << NestedProgram, Wrapper(2, NestedProgram) >>

\* ((proc (x) proc (y) body  1) 2)
XY(body) ==
    Call(Call(Proc("x", TInt, Proc("y", TInt, body)), LiteralInt(1)), LiteralInt(2))

\* a procedure z (or w) applied to 0 at once
Z(v, body) == Call(Proc(v, TInt, body), LiteralInt(0))

\* references to x from one, two and three procedures in, once and twice
CascadePrograms ==
    << XY(Z("z", Name("x"))),
       XY(Z("z", Subtract(Name("x"), Subtract(Name("x"), Name("y"))))),
       XY(Z("z", Z("w", Subtract(Name("x"), Subtract(Name("y"), Name("x")))))),
       XY(Subtract(Name("x"), Name("x"))),
       XY(Subtract(Z("z", Name("x")), Z("w", Name("x")))),
       XY(Subtract(Name("x"), Z("z", Name("x")))) >>

\* a Subtract or a Call at top level, with operands that are literals,
\* operators, conditionals, calls and lets
OrderPrograms ==
    << Subtract(LiteralInt(10), LiteralInt(3)),
       Subtract(Subtract(LiteralInt(10), LiteralInt(3)),
                Subtract(LiteralInt(1), LiteralInt(2))),
       Subtract(If(IsZero(LiteralInt(0)), LiteralInt(10), LiteralInt(3)),
                Call(Id, LiteralInt(3))),
       Subtract(LiteralInt(5),
                Let("y", LiteralInt(2), Subtract(Name("y"), LiteralInt(1)))),
       Subtract(Let("y", LiteralInt(2), Name("y")), LiteralInt(1)),
       Call(Proc("x", TInt, Subtract(Name("x"), LiteralInt(1))),
            Subtract(LiteralInt(10), LiteralInt(3))),
       Call(Call(Proc("z", TInt, Proc("x", TInt, Subtract(Name("x"), Name("z")))),
                 LiteralInt(2)),
            Subtract(LiteralInt(10), LiteralInt(3))),
       Call(Id, Let("y", LiteralInt(2), Name("y"))) >>

\* -(if zero?(p) then (proc (x: int) x  1) else 2, 3)
IfOperand(p) ==
    Subtract(If(IsZero(p), Call(Id, LiteralInt(1)), LiteralInt(2)), LiteralInt(3))

\* an If at top level, as an operand at top level, as an operand inside a
\* procedure
IfPrograms ==
    << If(IsZero(Subtract(LiteralInt(5), LiteralInt(5))), LiteralInt(1), LiteralInt(2)),
       If(IsZero(Subtract(LiteralInt(5), LiteralInt(4))), LiteralInt(1), LiteralInt(2)),
       IfOperand(LiteralInt(0)),
       IfOperand(LiteralInt(1)),
       Call(Proc("p", TInt, IfOperand(Name("p"))), LiteralInt(0)),
       Call(Proc("p", TInt, IfOperand(Name("p"))), LiteralInt(1)) >>

\* a name bound again inside the scope of a let, at top level and in a
\* procedure
ScopePrograms ==
    << Let("x", LiteralInt(1),
           Subtract(Let("x", LiteralInt(2), Name("x")), Name("x"))),
       Let("x", LiteralInt(5),
           Let("x", Subtract(Name("x"), LiteralInt(1)), Name("x"))),
       Call(Proc("p", TInt,
                 Let("x", Name("p"),
                     Subtract(Let("x", LiteralInt(2), Name("x")), Name("x")))),
            LiteralInt(3)),
       Let("x", LiteralInt(1),
           Let("x", LiteralInt(2), Let("x", LiteralInt(3), Name("x")))) >>

Programs ==
    <<MkProgram>> \o LoopPrograms \o ContextPrograms \o CallPrograms
    \o CapturePrograms \o AssertPrograms \o ShadowPrograms \o SwapPrograms
    \o UnbalancedPrograms \o NestedPrograms \o CascadePrograms
    \o OrderPrograms \o IfPrograms \o ScopePrograms \o RejectedPrograms

(***************************************************************************)
(* main.rs eval: type check, resolve names, compile; then runtime::run.    *)
(***************************************************************************)
NoResult == [ok |-> FALSE, value |-> NoValue, msg |-> ""]
Ok(v) == [ok |-> TRUE, value |-> v, msg |-> ""]
Err(m) == [ok |-> FALSE, value |-> NoValue, msg |-> m]

NoSteps == [n |-> 0, calls |-> 0]

InitWith(P) ==
    \E i \in 1..Len(P) :
        LET t == let_type_of(P[i])
            r == IF t.ok THEN resolve_names(P[i])
                 ELSE [st |-> NewState, e |-> N_None]
            c == IF t.ok /\ r.st.err = "" THEN compile(P[i]) ELSE NewState
        IN
        /\ program = P[i]
        /\ checked = t
        /\ resolved = r
        /\ chunk = c.ops
        /\ tops = c.tops
        /\ phase = IF t.ok /\ r.st.err = "" /\ c.err = "" THEN "run" ELSE "rejected"
        /\ result = IF ~t.ok THEN Err(t.msg)
                    ELSE IF r.st.err # "" THEN Err(r.st.err)
                    ELSE IF c.err # "" THEN Err(c.err)
                    ELSE NoResult
        /\ next_op = 0
        /\ stack = <<>>
        /\ stack_base = 0
        /\ captures = <<>>
        /\ call_stack = <<>>
        /\ frames = <<>>
        /\ made = <<>>
        /\ steps = NoSteps

\* chunks handed to run directly, not produced by the compiler
NoProgram == [tag |-> "None"]
LocalCap(k) == [is_local |-> TRUE, index |-> k]
CaptureCap(k) == [is_local |-> FALSE, index |-> k]

RawChunks ==
    << <<>>,
       <<OpCall>>,
       <<OpPushValue(Integer(1)), OpCall>>,
       <<OpPushValue(Integer(1)), OpPushValue(Integer(2)), OpCall>>,
       <<OpReturn>>,
       <<OpPushValue(Integer(1)), OpReturn>>,
       <<OpPushLocal(0)>>,
       <<OpPushValue(Integer(1)), OpPushLocal(1)>>,
       <<OpPushGlobal(0)>>,
       <<OpPushCapture(0)>>,
       <<OpMakeProc(0, <<LocalCap(0)>>)>>,
       <<OpPushValue(Integer(1)), OpMakeProc(0, <<LocalCap(0), CaptureCap(0)>>)>>,
       <<OpDiff>>,
       <<OpPushValue(Integer(1)), OpDiff>>,
       <<OpPushValue(Boolean(TRUE)), OpPushValue(Integer(1)), OpDiff>>,
       <<OpIsZero>>,
       <<OpJumpTrue(0)>>,
       <<OpPushValue(Integer(0)), OpJumpTrue(0)>>,
       <<OpJump(5)>>,
       <<OpTailCall>>,
       <<OpPushValue(Integer(1)), OpPushValue(Integer(2)), OpTailCall>>,
       <<OpNegate>>,
       <<OpPushValue(Boolean(TRUE)), OpNegate>>,
       <<OpPushValue(Integer(3)), OpNegate>>,
       <<OpAssert(1)>>,
       <<OpPushValue(Integer(1)), OpAssert(1)>>,
       <<OpPushValue(Boolean(TRUE)), OpAssert(7), OpPushValue(Integer(42))>>,
       <<OpPushValue(Boolean(FALSE)), OpAssert(7), OpPushValue(Integer(42))>> >>

InitRaw(R) ==
    \E i \in 1..Len(R) :
        /\ program = NoProgram
        /\ checked = TErr("")
        /\ resolved = [st |-> NewState, e |-> N_None]
        /\ chunk = R[i]
        /\ tops = <<>>
        /\ phase = "run"
        /\ result = NoResult
        /\ next_op = 0
        /\ stack = <<>>
        /\ stack_base = 0
        /\ captures = <<>>
        /\ call_stack = <<>>
        /\ frames = <<>>
        /\ made = <<>>
        /\ steps = NoSteps

\* expressions handed to resolve_names directly; u, v and w are bound nowhere
Parts ==
    << Name("u"),
       Name("v"),
       LiteralInt(0),
       Subtract(Name("x"), Name("w")),
       Subtract(Name("u"), Name("v")),
       Let("y", Name("x"), Subtract(Name("y"), Name("v"))),
       Call(Proc("z", TInt, Name("x")), Name("u")),
       If(IsZero(Name("x")), Name("v"), Name("u")) >>

Joins(c, a) ==
    << If(IsZero(Name("x")), c, a),
       If(IsZero(Name("w")), c, a),
       Subtract(c, a),
       Call(Proc("z", TInt, c), a),
       Let("y", c, a),
       Proc("z", TInt, If(IsZero(Name("z")), c, a)) >>

NJoins == Len(Joins(LiteralInt(0), LiteralInt(0)))

\* a name referred to after the let that binds it, and in its own right-hand
\* side
ScopeInputs ==
    << Subtract(Let("x", LiteralInt(1), Name("x")), Name("x")),
       Let("x", Name("x"), Name("x")),
       Let("y", LiteralInt(1),
           Subtract(Let("x", Name("y"), Name("x")), Let("x", LiteralInt(2), Name("y")))) >>

ResolveInputs ==
    [i \in 1..(NJoins * Len(Parts) * Len(Parts)) |->
        LET j == ((i - 1) \div (Len(Parts) * Len(Parts))) + 1
            c == (((i - 1) \div Len(Parts)) % Len(Parts)) + 1
            a == ((i - 1) % Len(Parts)) + 1
        IN Let("x", LiteralInt(1), Joins(Parts[c], Parts[a])[j])]
    \o ScopeInputs

InitResolve(P) ==
    \E i \in 1..Len(P) :
        /\ program = P[i]
        /\ checked = TErr("")
        /\ resolved = [st |-> NewState, e |-> N_None]
        /\ chunk = <<>>
        /\ tops = <<>>
        /\ phase = "resolve"
        /\ result = NoResult
        /\ next_op = 0
        /\ stack = <<>>
        /\ stack_base = 0
        /\ captures = <<>>
        /\ call_stack = <<>>
        /\ frames = <<>>
        /\ made = <<>>
        /\ steps = NoSteps

Init ==
    \/ InitWith(Programs)
    \/ InitRaw(RawChunks)
    \/ InitResolve(ResolveInputs)

\* name_analysis::resolve_names applied to the expression
DoResolve ==
    /\ phase = "resolve"
    /\ resolved' = resolve_names(program)
    /\ phase' = "resolved"
    /\ result' = IF resolved'.st.err = "" THEN NoResult ELSE Err(resolved'.st.err)
    /\ UNCHANGED <<program, checked, chunk, tops, next_op, stack, stack_base,
                   captures, call_stack, frames, made, steps>>

(***************************************************************************)
(* runtime.rs: run.  One action per Op arm of the loop; Finish is the exit *)
(* of the loop (Address::lookup returns None) and the final stack.pop().   *)
(* An Err return is phase "error"; a Rust panic (index out of bounds,      *)
(* usize underflow) is phase "panic".                                      *)
(***************************************************************************)
Fetching(o) ==
    /\ phase = "run"
    /\ next_op < Len(chunk)
    /\ chunk[next_op + 1].op = o

op == chunk[next_op + 1]

\* one more op executed (ghost)
Tick ==
    steps' = [n |-> steps.n + 1,
              calls |-> steps.calls + IF op.op \in {"Call", "TailCall"} THEN 1 ELSE 0]

StaticCode == UNCHANGED <<program, checked, resolved, chunk, tops>>

Static == StaticCode /\ UNCHANGED made

Fail(msg) ==
    /\ phase' = "error"
    /\ result' = Err(msg)

Panic ==
    /\ phase' = "panic"
    /\ result' = Err("panic")

Continue == UNCHANGED <<phase, result>>

Top(s) == s[Len(s)]
Pop(s) == SubSeq(s, 1, Len(s) - 1)

\* mutation of pop_to: the value at the base is kept
pop_to_one_short(s, base) == IF base + 1 < Len(s) THEN SubSeq(s, 1, base + 1) ELSE s

\* mutation of pop_to: the whole stack is dropped
pop_to_bottom(s, base) == <<>>

\* ValueStack::pop_to
pop_to(s, base) == IF base < Len(s) THEN SubSeq(s, 1, base) ELSE s

\* the frame base Op::Call sets
call_base(len) == len - 2

\* mutation of tail_call_pushes: the procedure is not pushed back
tail_call_pushes_argument_only(proc, argument) == <<argument>>

\* mutation of tail_call_pushes: the argument below the procedure
tail_call_pushes_swapped(proc, argument) == <<argument, proc>>

\* mutation of tail_call_pushes: the argument is added to the captures of
\* the procedure pushed back
tail_call_pushes_recaptured(proc, argument) ==
    <<[proc EXCEPT !.captures = Append(@, argument)], argument>>

\* the two values Op::TailCall pushes back, bottom first
tail_call_pushes(proc, argument) == <<proc, argument>>

\* mutation of proc_captures_of: every capture is the procedure being made
proc_captures_of_self(caps) ==
    [i \in 1..Len(caps) |-> Procedure(chunk[next_op + 1].addr, <<>>)]

\* the values a MakeProc captures
proc_captures_of(caps) ==
    [i \in 1..Len(caps) |->
        IF caps[i].is_local THEN stack[stack_base + caps[i].index + 1]
        ELSE captures[caps[i].index + 1]]

captures_in_range(caps) ==
    \A i \in 1..Len(caps) :
        IF caps[i].is_local THEN stack_base + caps[i].index < Len(stack)
        ELSE caps[i].index < Len(captures)

\* mutation of assert_message: the line is left out
assert_message_no_line(line) == "Assert"

\* the error of a failed Assert { line }
assert_message(line) == "Assert at line " \o ToString(line)

DoAssert ==
    /\ Fetching("Assert")
    /\ Tick
    /\ Static
    /\ UNCHANGED <<stack_base, captures, call_stack, frames>>
    /\ next_op' = next_op + 1
    /\ IF Len(stack) = 0 THEN Fail("stack underflow") /\ stack' = stack
       ELSE IF as_bool(Top(stack)) # "" THEN Fail(as_bool(Top(stack))) /\ stack' = Pop(stack)
       ELSE /\ stack' = Pop(stack)
            /\ IF Top(stack).b THEN Continue
               ELSE Fail(assert_message(op.k))

DoCall ==
    /\ Fetching("Call")
    /\ Tick
    /\ Static
    /\ call_stack' = Append(call_stack, [next_op |-> next_op + 1,
                                         stack_base |-> stack_base,
                                         captures |-> captures])
    /\ IF Len(stack) < 2 \/ call_base(Len(stack)) >= Len(stack)
       THEN /\ Panic
            /\ UNCHANGED <<next_op, stack, stack_base, captures, frames>>
       ELSE LET base == call_base(Len(stack))
                p == stack[base + 1]
            IN /\ stack_base' = base
               /\ stack' = stack
               /\ frames' = Append(frames, [proc |-> stack[Len(stack) - 1],
                                            arg |-> stack[Len(stack)],
                                            height |-> Len(stack),
                                            ip |-> next_op + 1,
                                            base |-> stack_base,
                                            caps |-> captures,
                                            tails |-> 0])
               /\ IF as_proc(p) # ""
                  THEN Fail(as_proc(p)) /\ UNCHANGED <<next_op, captures>>
                  ELSE /\ next_op' = p.start
                       /\ captures' = p.captures
                       /\ Continue

DoDiff ==
    /\ Fetching("Diff")
    /\ Tick
    /\ Static
    /\ UNCHANGED <<stack_base, captures, call_stack, frames>>
    /\ next_op' = next_op + 1
    /\ IF Len(stack) = 0 THEN Fail("stack underflow") /\ stack' = stack
       ELSE IF as_int(Top(stack)) # "" THEN Fail(as_int(Top(stack))) /\ stack' = Pop(stack)
       ELSE IF Len(stack) = 1 THEN Fail("stack underflow") /\ stack' = Pop(stack)
       ELSE IF as_int(Top(Pop(stack))) # ""
            THEN Fail(as_int(Top(Pop(stack)))) /\ stack' = Pop(Pop(stack))
       ELSE LET x2 == Top(stack).n
                x1 == Top(Pop(stack)).n
            IN /\ stack' = Append(Pop(Pop(stack)), Integer(x1 - x2))
               /\ Continue

DoIsZero ==
    /\ Fetching("IsZero")
    /\ Tick
    /\ Static
    /\ UNCHANGED <<stack_base, captures, call_stack, frames>>
    /\ next_op' = next_op + 1
    /\ IF Len(stack) = 0 THEN Fail("stack underflow") /\ stack' = stack
       ELSE IF as_int(Top(stack)) # "" THEN Fail(as_int(Top(stack))) /\ stack' = Pop(stack)
       ELSE /\ stack' = Append(Pop(stack), Boolean(Top(stack).n = 0))
            /\ Continue

DoJump ==
    /\ Fetching("Jump")
    /\ Tick
    /\ Static
    /\ UNCHANGED <<stack, stack_base, captures, call_stack, frames>>
    /\ next_op' = op.addr
    /\ Continue

DoJumpTrue ==
    /\ Fetching("JumpTrue")
    /\ Tick
    /\ Static
    /\ UNCHANGED <<stack_base, captures, call_stack, frames>>
    /\ IF Len(stack) = 0
       THEN Fail("stack underflow") /\ stack' = stack /\ next_op' = next_op + 1
       ELSE IF as_bool(Top(stack)) # ""
       THEN Fail(as_bool(Top(stack))) /\ stack' = Pop(stack) /\ next_op' = next_op + 1
       ELSE /\ stack' = Pop(stack)
            /\ next_op' = IF Top(stack).b THEN op.addr ELSE next_op + 1
            /\ Continue

DoMakeProc ==
    /\ Fetching("MakeProc")
    /\ Tick
    /\ StaticCode
    /\ UNCHANGED <<stack_base, captures, call_stack, frames>>
    /\ next_op' = next_op + 1
    /\ IF ~captures_in_range(op.caps)
       THEN Panic /\ stack' = stack /\ made' = made
       ELSE LET proc == Procedure(op.addr, proc_captures_of(op.caps)) IN
            /\ stack' = Append(stack, proc)
            /\ made' = Append(made, proc)
            /\ Continue

DoNegate ==
    /\ Fetching("Negate")
    /\ Tick
    /\ Static
    /\ UNCHANGED <<stack_base, captures, call_stack, frames>>
    /\ next_op' = next_op + 1
    /\ IF Len(stack) = 0 THEN Fail("stack underflow") /\ stack' = stack
       ELSE IF as_int(Top(stack)) # "" THEN Fail(as_int(Top(stack))) /\ stack' = Pop(stack)
       ELSE /\ stack' = Append(Pop(stack), Integer(0 - Top(stack).n))
            /\ Continue

DoPushCapture ==
    /\ Fetching("PushCapture")
    /\ Tick
    /\ Static
    /\ UNCHANGED <<stack_base, captures, call_stack, frames>>
    /\ next_op' = next_op + 1
    /\ IF op.k >= Len(captures) THEN Panic /\ stack' = stack
       ELSE /\ stack' = Append(stack, captures[op.k + 1])
            /\ Continue

DoPushGlobal ==
    /\ Fetching("PushGlobal")
    /\ Tick
    /\ Static
    /\ UNCHANGED <<stack_base, captures, call_stack, frames>>
    /\ next_op' = next_op + 1
    /\ IF op.k >= Len(stack) THEN Panic /\ stack' = stack
       ELSE /\ stack' = Append(stack, stack[op.k + 1])
            /\ Continue

DoPushLocal ==
    /\ Fetching("PushLocal")
    /\ Tick
    /\ Static
    /\ UNCHANGED <<stack_base, captures, call_stack, frames>>
    /\ next_op' = next_op + 1
    /\ IF stack_base + op.k >= Len(stack) THEN Panic /\ stack' = stack
       ELSE /\ stack' = Append(stack, stack[stack_base + op.k + 1])
            /\ Continue

DoPushValue ==
    /\ Fetching("PushValue")
    /\ Tick
    /\ Static
    /\ UNCHANGED <<stack_base, captures, call_stack, frames>>
    /\ next_op' = next_op + 1
    /\ stack' = Append(stack, op.value)
    /\ Continue

DoReturn ==
    /\ Fetching("Return")
    /\ Tick
    /\ Static
    /\ IF Len(stack) = 0
       THEN /\ Panic
            /\ next_op' = next_op + 1
            /\ UNCHANGED <<stack, stack_base, captures, call_stack, frames>>
       ELSE /\ stack' = Append(pop_to(stack, stack_base), Top(stack))
            /\ IF Len(call_stack) = 0
               THEN /\ Fail("call stack underflow")
                    /\ next_op' = next_op + 1
                    /\ UNCHANGED <<stack_base, captures, call_stack, frames>>
               ELSE /\ next_op' = Top(call_stack).next_op
                    /\ stack_base' = Top(call_stack).stack_base
                    /\ captures' = Top(call_stack).captures
                    /\ call_stack' = Pop(call_stack)
                    /\ frames' = Pop(frames)
                    /\ Continue

DoTailCall ==
    /\ Fetching("TailCall")
    /\ Tick
    /\ Static
    /\ UNCHANGED <<stack_base, call_stack>>
    /\ IF Len(stack) < 2
       THEN /\ Fail("stack underflow")
            /\ stack' = <<>>
            /\ next_op' = next_op + 1
            /\ UNCHANGED <<captures, frames>>
       ELSE LET argument == Top(stack)
                proc == Top(Pop(stack))
                rest == pop_to(Pop(Pop(stack)), stack_base)
            IN IF as_proc(proc) # ""
               THEN /\ Fail(as_proc(proc))
                    /\ stack' = rest
                    /\ next_op' = next_op + 1
                    /\ UNCHANGED <<captures, frames>>
               ELSE /\ next_op' = proc.start
                    /\ captures' = proc.captures
                    /\ stack' = rest \o tail_call_pushes(proc, argument)
                    /\ frames' = IF frames = <<>> THEN frames
                                 ELSE Append(Pop(frames),
                                             [Top(frames) EXCEPT !.proc = proc,
                                                                 !.arg = argument,
                                                                 !.tails = @ + 1])
                    /\ Continue

Finish ==
    /\ phase = "run"
    /\ next_op >= Len(chunk)
    /\ Static
    /\ UNCHANGED <<stack_base, captures, call_stack, frames, steps>>
    /\ next_op' = next_op + 1
    /\ IF Len(stack) = 0
       THEN /\ phase' = "error"
            /\ result' = Err("stack underflow")
            /\ stack' = stack
       ELSE /\ phase' = "done"
            /\ result' = Ok(Top(stack))
            /\ stack' = Pop(stack)

Next ==
    \/ DoResolve
    \/ DoAssert
    \/ DoCall
    \/ DoDiff
    \/ DoIsZero
    \/ DoJump
    \/ DoJumpTrue
    \/ DoMakeProc
    \/ DoNegate
    \/ DoPushCapture
    \/ DoPushGlobal
    \/ DoPushLocal
    \/ DoPushValue
    \/ DoReturn
    \/ DoTailCall
    \/ Finish

Spec == Init /\ [][Next]_vars

(***************************************************************************)
(* Reference semantics of the source language (environment passing), used  *)
(* to say what a variable denotes.                                         *)
(***************************************************************************)
Closure(p, b, env, self) ==
    [tag |-> "Closure", param |-> p, body |-> b, env |-> env, self |-> self]

RECURSIVE Eval(_, _)
Apply(clo, arg) ==
    Eval(clo.body,
         table_push(IF clo.self = "" THEN clo.env
                    ELSE table_push(clo.env, clo.self, clo),
                    clo.param, arg))

Eval(e, env) ==
    CASE e.tag = "LiteralInt" -> Integer(e.n)
      [] e.tag = "LiteralBool" -> Boolean(e.b)
      [] e.tag = "Name" -> table_lookup(env, e.name)
      [] e.tag = "Subtract" -> Integer(Eval(e.left, env).n - Eval(e.right, env).n)
      [] e.tag = "IsZero" -> Boolean(Eval(e.e, env).n = 0)
      [] e.tag = "If" -> IF Eval(e.test, env).b THEN Eval(e.consequent, env)
                         ELSE Eval(e.alternate, env)
      [] e.tag = "Let" -> Eval(e.body, table_push(env, e.name, Eval(e.expr, env)))
      [] e.tag = "LetRec" ->
            Eval(e.let_body,
                 table_push(env, e.name, Closure(e.param, e.proc_body, env, e.name)))
      [] e.tag = "Proc" -> Closure(e.param, e.body, env, "")
      [] e.tag = "Call" -> Apply(Eval(e.proc, env), Eval(e.arg, env))

(***************************************************************************)
(* Helpers of the claims.                                                  *)
(***************************************************************************)
TypeMismatches ==
    {"value is not an integer", "value is not a boolean", "value is not a procedure"}

Accepted == checked.ok /\ resolved.st.err = ""

\* the start address of the innermost procedure body holding address a
\* (a MakeProc at address m with start s closes the body s .. m - 1); -1 at
\* top level
BodyStarts(a) ==
    {chunk[i].addr : i \in {j \in 1..Len(chunk) :
        chunk[j].op = "MakeProc" /\ chunk[j].addr <= a /\ a < j - 1}}

BodyStart(a) == IF BodyStarts(a) = {} THEN -1 ELSE Last(BodyStarts(a))

\* activation i (1 = the outermost call): its frame base and the address it
\* is executing at or will resume at
ActBase(i) ==
    IF i = Len(call_stack) THEN stack_base ELSE call_stack[i + 1].stack_base

ActAddr(i) ==
    IF i = Len(call_stack) THEN next_op ELSE call_stack[i + 1].next_op

\* the values the op at next_op pops before it pushes
Consumed(o) ==
    CASE o.op \in {"Call", "TailCall", "Diff"} -> 2
      [] o.op \in {"IsZero", "JumpTrue"} -> 1
      [] OTHER -> 0

IsLoopProgram == \E n \in 0..MaxN : program = LoopProgram(n)

(***************************************************************************)
(* C1: for every program the type checker accepts, the run of its compiled *)
(* chunk never ends in a run-time type mismatch ('value is not an integer  *)
(* / a boolean / a procedure'), whatever form the operator and the operand *)
(* of a call have.                                                         *)
(***************************************************************************)
C1_TypePreservation ==
    checked.ok => ~(phase = "error" /\ result.msg \in TypeMismatches)

(***************************************************************************)
(* C2: while a procedure activation is live (from the Call or TailCall     *)
(* that entered it to its Return), stack[frame_base] is the Procedure      *)
(* whose body the activation executes and stack[frame_base + 1] is the     *)
(* operand value it was applied to; this holds for the current frame base  *)
(* and for the saved base of every suspended activation on the call stack  *)
(* (the bottom frame saves the base of the top level, which is no          *)
(* activation).                                                            *)
(***************************************************************************)
C2_FrameHoldsCalleeAndArgument ==
    (Accepted /\ phase = "run") =>
        \A i \in 1..Len(call_stack) :
            /\ ActBase(i) + 2 <= Len(stack)
            /\ stack[ActBase(i) + 1].tag = "Procedure"
            /\ stack[ActBase(i) + 1].start = BodyStart(ActAddr(i))
            /\ stack[ActBase(i) + 2] = frames[i].arg

\* a nested activation: the callee of a Call made inside a procedure body
C2_Witness ==
    /\ phase = "run"
    /\ Len(call_stack) = 2
    /\ stack_base > call_stack[2].stack_base
    /\ stack[stack_base + 2].tag = "Integer"
    /\ BodyStart(next_op) # BodyStart(call_stack[2].next_op)

(***************************************************************************)
(* C3: the value PushCapture(k) pushes in a procedure body is the value    *)
(* the captured variable denoted in the defining frame when MakeProc ran:  *)
(* a program whose result is the captured variable c of                    *)
(* let c = e in (proc (z) c  0) yields the value of e, and                 *)
(* let mk = proc (x) proc (y) -(x, y) in ((mk 10) 3) yields Integer(7).    *)
(***************************************************************************)
IsCaptureProgram == \E i \in CaptureForms : program = CaptureProgram(Forms[i])

C3_CapturedValueIsDenoted ==
    /\ (program = MkProgram /\ phase = "done") => result.value = Integer(7)
    /\ (IsCaptureProgram /\ phase = "done") => result.value = Eval(program, <<>>)

(***************************************************************************)
(* C4: for letrec loop(n) = if zero?(n) then 0 else (loop -(n, 1)) in      *)
(* (loop N), 0 <= N <= MaxN, the run ends with Integer(0) and the call     *)
(* stack never holds more than the one frame pushed by the top-level Call. *)
(***************************************************************************)
C4_TailCallConstantStack ==
    IsLoopProgram =>
        /\ Len(call_stack) <= 1
        /\ phase \in {"run", "done"}
        /\ phase = "done" => result = Ok(Integer(0))

\* the body entered for the MaxN-th time by a TailCall, n counted down to 0
C4_Witness ==
    /\ program = LoopProgram(MaxN)
    /\ MaxN > 1
    /\ phase = "run"
    /\ Len(call_stack) = 1
    /\ Len(stack) = stack_base + 2
    /\ stack[stack_base + 2] = Integer(0)

(***************************************************************************)
(* C5: after resolving any complete expression (of any form) stack_top is  *)
(* exactly one greater than before that expression.                        *)
(***************************************************************************)
C5_ExpressionPushesOne ==
    \A i \in 1..Len(resolved.st.log) :
        resolved.st.log[i].after = resolved.st.log[i].before + 1

(***************************************************************************)
(* C6: when an If is resolved, stack_top after the alternate equals        *)
(* stack_top after the consequent, for any pair of branches.               *)
(***************************************************************************)
C6_IfBranchesSameHeight ==
    \A i \in 1..Len(resolved.st.log) :
        resolved.st.log[i].tag = "If" =>
            resolved.st.log[i].alt = resolved.st.log[i].consq

(***************************************************************************)
(* C7: the compile-time stack simulates the VM stack: whenever an op is    *)
(* about to execute, the value-stack height above frame_base is the        *)
(* stack_top the compiler state had when it emitted that op (plus the      *)
(* operands the op pops).                                                  *)
(***************************************************************************)
C7_AbstractStackSimulatesVM ==
    (Accepted /\ phase = "run" /\ next_op < Len(chunk)) =>
        Len(stack) - stack_base = tops[next_op + 1] + Consumed(op)

(***************************************************************************)
(* C8: in every state of a run the current frame_base and the saved        *)
(* stack_base of every frame on the call stack are at most the value-stack *)
(* length.                                                                 *)
(***************************************************************************)
C8_StackConservation ==
    /\ stack_base <= Len(stack)
    /\ \A i \in 1..Len(call_stack) : call_stack[i].stack_base <= Len(stack)

\* a Return has just dropped the frame of a call made inside a procedure
\* body and restored the caller's base
C8_Witness ==
    /\ phase = "run"
    /\ Len(call_stack) >= 1
    /\ stack_base >= 1
    /\ next_op > 0
    /\ chunk[next_op].op = "Call"
    /\ stack_base + 2 < Len(stack)

(***************************************************************************)
(* C9 (as claimed): every Jump and JumpTrue of a compiled chunk has a      *)
(* target t with 0 <= t < chunk.len().                                     *)
(***************************************************************************)
C9_JumpTargetsInsideChunk ==
    Accepted => \A i \in 1..Len(chunk) :
        chunk[i].op \in {"Jump", "JumpTrue"} =>
            (0 <= chunk[i].addr /\ chunk[i].addr < Len(chunk))

(***************************************************************************)
(* C9 (amended): every Jump and JumpTrue of a compiled chunk has a target  *)
(* t with 0 <= t <= chunk.len(); every JumpTrue target is below            *)
(* chunk.len(), and t = chunk.len() is the Jump that ends the alternate of *)
(* an If closing the program, where the run ends.                          *)
(***************************************************************************)
C9_JumpTargetsUpToEnd ==
    Accepted => \A i \in 1..Len(chunk) :
        /\ chunk[i].op = "Jump" => (i <= chunk[i].addr /\ chunk[i].addr <= Len(chunk))
        /\ chunk[i].op = "JumpTrue" => (i <= chunk[i].addr /\ chunk[i].addr < Len(chunk))

\* the run took the Jump whose target is chunk.len()
C9_Witness ==
    /\ phase = "run"
    /\ next_op = Len(chunk)
    /\ \E i \in 1..Len(chunk) : chunk[i].op = "Jump" /\ chunk[i].addr = Len(chunk)
    /\ chunk[Len(chunk)].op = "PushValue"
    /\ Accepted

(***************************************************************************)
(* C10: the compiler emits TailCall for a call if and only if the call is  *)
(* in tail position and inside a procedure body; every other call is       *)
(* emitted as Call.  TailFlags lists, in emission order, whether each call *)
(* of the program is such a call (a procedure body is tail; the branches   *)
(* of an If and the body of a Let or LetRec inherit; operands are not).    *)
(***************************************************************************)
RECURSIVE TailFlags(_, _, _)
TailFlags(e, tail, inproc) ==
    CASE e.tag = "Call" ->
            TailFlags(e.proc, FALSE, inproc) \o TailFlags(e.arg, FALSE, inproc)
            \o <<tail /\ inproc>>
      [] e.tag = "Subtract" ->
            TailFlags(e.left, FALSE, inproc) \o TailFlags(e.right, FALSE, inproc)
      [] e.tag = "IsZero" -> TailFlags(e.e, FALSE, inproc)
      [] e.tag = "If" ->
            TailFlags(e.test, FALSE, inproc) \o TailFlags(e.alternate, tail, inproc)
            \o TailFlags(e.consequent, tail, inproc)
      [] e.tag = "Let" ->
            TailFlags(e.expr, FALSE, inproc) \o TailFlags(e.body, tail, inproc)
      [] e.tag = "LetRec" ->
            TailFlags(e.proc_body, TRUE, TRUE) \o TailFlags(e.let_body, tail, inproc)
      [] e.tag = "Proc" -> TailFlags(e.body, TRUE, TRUE)
      [] e.tag = "Assert" ->
            TailFlags(e.test, FALSE, inproc) \o TailFlags(e.body, tail, inproc)
      [] OTHER -> <<>>

CallOps == SelectSeq(chunk, LAMBDA o : o.op \in {"Call", "TailCall"})

C10_TailCallIffTailInProc ==
    Accepted =>
        LET flags == TailFlags(program, TRUE, FALSE) IN
        /\ Len(CallOps) = Len(flags)
        /\ \A i \in 1..Len(flags) : (CallOps[i].op = "TailCall") <=> flags[i]

(***************************************************************************)
(* C12: for every chunk, also one the compiler did not produce, run ends   *)
(* with a value or an error string and never aborts: Call with fewer than  *)
(* two values on the stack, Return on an empty stack and PushLocal /       *)
(* PushGlobal / PushCapture / MakeProc with an index out of range yield an *)
(* error result.                                                           *)
(***************************************************************************)
C12_RunNeverAborts == phase # "panic"

(***************************************************************************)
(* C11: tail position is inherited, never created: a call that lies inside *)
(* an operand of Subtract or IsZero, or inside the operator or operand of  *)
(* a Call (also under an If or Let within that operand, up to the next     *)
(* procedure boundary), is emitted as Call, never as TailCall.             *)
(* OperandFlags lists, in emission order, whether each call of the program *)
(* lies inside such an operand.                                            *)
(***************************************************************************)
RECURSIVE OperandFlags(_, _)
OperandFlags(e, inop) ==
    CASE e.tag = "Call" ->
            OperandFlags(e.proc, TRUE) \o OperandFlags(e.arg, TRUE) \o <<inop>>
      [] e.tag = "Subtract" ->
            OperandFlags(e.left, TRUE) \o OperandFlags(e.right, TRUE)
      [] e.tag = "IsZero" -> OperandFlags(e.e, TRUE)
      [] e.tag = "If" ->
            OperandFlags(e.test, inop) \o OperandFlags(e.alternate, inop)
            \o OperandFlags(e.consequent, inop)
      [] e.tag = "Let" ->
            OperandFlags(e.expr, inop) \o OperandFlags(e.body, inop)
      [] e.tag = "LetRec" ->
            OperandFlags(e.proc_body, FALSE) \o OperandFlags(e.let_body, inop)
      [] e.tag = "Proc" -> OperandFlags(e.body, FALSE)
      [] e.tag = "Assert" ->
            OperandFlags(e.test, inop) \o OperandFlags(e.body, inop)
      [] OTHER -> <<>>

C11_OperandCallsAreCalls ==
    Accepted =>
        LET flags == OperandFlags(program, FALSE) IN
        /\ Len(CallOps) = Len(flags)
        /\ \A i \in 1..Len(flags) : flags[i] => CallOps[i].op = "Call"

(***************************************************************************)
(* C13: Assert { line } pops one Boolean.  When it is false the run stops  *)
(* at once with the error 'Assert at line <line>' and no value; when it is *)
(* true the run goes on with the next op and the stack is what it was      *)
(* before the test was pushed.  assert zero?(-(3, 3)) then 42 yields       *)
(* Integer(42); assert zero?(-(3, 4)) then 42 yields 'Assert at line 1'.   *)
(***************************************************************************)
C13_AssertStep ==
    /\ (Fetching("Assert") /\ Len(stack) > 0 /\ Top(stack) = Boolean(TRUE)) =>
            /\ phase' = "run"
            /\ result' = result
            /\ stack' = Pop(stack)
            /\ next_op' = next_op + 1
            /\ Accepted => Len(stack') - stack_base = tops[next_op + 1]
    /\ (Fetching("Assert") /\ Len(stack) > 0 /\ Top(stack) = Boolean(FALSE)) =>
            /\ phase' = "error"
            /\ result' = Err("Assert at line " \o ToString(op.k))
            /\ stack' = Pop(stack)
    /\ (program = AssertProgram(3) /\ phase' # "run") => result' = Ok(Integer(42))
    /\ (program = AssertProgram(4) /\ phase' # "run") =>
            (phase' = "error" /\ result' = Err("Assert at line 1"))

C13_Assert == [][C13_AssertStep]_vars

\* inside a procedure body the assert of line 5 has passed and the assert of
\* line 6 has failed
C13_Witness ==
    /\ Accepted
    /\ phase = "error"
    /\ Len(call_stack) > 0
    /\ result = Err("Assert at line 6")

(***************************************************************************)
(* C14: when an expression holds several unbound names, the resolver's     *)
(* undefined-name error names the reference that comes first in            *)
(* left-to-right source order (test, consequent, alternate for an if).     *)
(* FirstUnbound is that reference, "" when every name is bound.            *)
(***************************************************************************)
OrElse(a, b) == IF a # "" THEN a ELSE b

RECURSIVE FirstUnbound(_, _)
FirstUnbound(e, bound) ==
    CASE e.tag = "Name" -> IF e.name \in bound THEN "" ELSE e.name
      [] e.tag = "Subtract" ->
            OrElse(FirstUnbound(e.left, bound), FirstUnbound(e.right, bound))
      [] e.tag = "IsZero" -> FirstUnbound(e.e, bound)
      [] e.tag = "If" ->
            OrElse(FirstUnbound(e.test, bound),
                   OrElse(FirstUnbound(e.consequent, bound),
                          FirstUnbound(e.alternate, bound)))
      [] e.tag = "Let" ->
            OrElse(FirstUnbound(e.expr, bound),
                   FirstUnbound(e.body, bound \cup {e.name}))
      [] e.tag = "LetRec" ->
            OrElse(FirstUnbound(e.proc_body, bound \cup {e.name, e.param}),
                   FirstUnbound(e.let_body, bound \cup {e.name}))
      [] e.tag = "Proc" -> FirstUnbound(e.body, bound \cup {e.param})
      [] e.tag = "Call" ->
            OrElse(FirstUnbound(e.proc, bound), FirstUnbound(e.arg, bound))
      [] e.tag = "Assert" ->
            OrElse(FirstUnbound(e.test, bound), FirstUnbound(e.body, bound))
      [] OTHER -> ""

C14_FirstUnboundNameReported ==
    phase = "resolved" =>
        LET first == FirstUnbound(program, {}) IN
        resolved.st.err = IF first = "" THEN "" ELSE "undefined name: " \o first

(***************************************************************************)
(* C15: name lookup is a strict cascade: a name bound in the current       *)
(* procedure's locals resolves to Local; otherwise, if an enclosing        *)
(* procedure binds it, to Capture; otherwise, if bound at top level, to    *)
(* Global; otherwise resolution fails.  Kinds lists what the cascade gives *)
(* for each reference, in the order the resolver meets them (cur: the      *)
(* names bound in the current procedure, outer: in enclosing procedures,   *)
(* top: at top level).                                                     *)
(***************************************************************************)
RECURSIVE Kinds(_, _, _, _, _)
Kinds(e, cur, outer, top, inproc) ==
    CASE e.tag = "Name" ->
            << IF e.name \in cur THEN "Local"
               ELSE IF e.name \in outer THEN "Capture"
               ELSE IF e.name \in top THEN "Global"
               ELSE "None" >>
      [] e.tag = "Subtract" ->
            Kinds(e.left, cur, outer, top, inproc) \o Kinds(e.right, cur, outer, top, inproc)
      [] e.tag = "IsZero" -> Kinds(e.e, cur, outer, top, inproc)
      [] e.tag = "If" ->
            Kinds(e.test, cur, outer, top, inproc)
            \o Kinds(e.alternate, cur, outer, top, inproc)
            \o Kinds(e.consequent, cur, outer, top, inproc)
      [] e.tag = "Let" ->
            Kinds(e.expr, cur, outer, top, inproc)
            \o (IF inproc THEN Kinds(e.body, cur \cup {e.name}, outer, top, inproc)
                ELSE Kinds(e.body, cur, outer, top \cup {e.name}, inproc))
      [] e.tag = "LetRec" ->
            Kinds(e.proc_body, {e.name, e.param}, outer \cup cur, top, TRUE)
            \o (IF inproc THEN Kinds(e.let_body, cur \cup {e.name}, outer, top, inproc)
                ELSE Kinds(e.let_body, cur, outer, top \cup {e.name}, inproc))
      [] e.tag = "Proc" -> Kinds(e.body, {e.param}, outer \cup cur, top, TRUE)
      [] e.tag = "Call" ->
            Kinds(e.proc, cur, outer, top, inproc) \o Kinds(e.arg, cur, outer, top, inproc)
      [] e.tag = "Assert" ->
            Kinds(e.test, cur, outer, top, inproc) \o Kinds(e.body, cur, outer, top, inproc)
      [] OTHER -> <<>>

NameLog == SelectSeq(resolved.st.log, LAMBDA l : l.tag = "Name")

WasResolved == checked.ok \/ phase = "resolved"

C15_LookupCascade ==
    WasResolved =>
        LET kinds == Kinds(program, {}, {}, {}, FALSE) IN
        IF \E i \in 1..Len(kinds) : kinds[i] = "None"
        THEN resolved.st.err # ""
        ELSE /\ resolved.st.err = ""
             /\ Len(NameLog) = Len(kinds)
             /\ \A i \in 1..Len(kinds) : NameLog[i].kind = kinds[i]

\* x is bound at top level and by an enclosing procedure: inside the inner
\* procedure it was resolved to a capture, and the run is in that procedure
C15_Witness ==
    /\ program = ShadowPrograms[4]
    /\ \E i \in 1..Len(NameLog) : NameLog[i].name = "x" /\ NameLog[i].kind = "Capture"
    /\ phase = "run"
    /\ Len(call_stack) = 1
    /\ Len(captures) = 1

(***************************************************************************)
(* C16: letrec name(p) = body in let_body is lowered to a Let of a Proc:   *)
(* a reference to name inside body resolves to Local(0) of the procedure's *)
(* frame, the procedure's capture list has no entry for name, and a        *)
(* reference to name in let_body resolves to the slot the Let binds (the   *)
(* slot the procedure value is pushed to).  At run time                    *)
(* sum(n) = if zero?(n) then 0 else -(n, -(0, (sum -(n, 1)))) applied to 5 *)
(* yields Integer(15).  (References are matched to a letrec by name, so   *)
(* the slots are compared for names that one letrec of the program binds.) *)
(***************************************************************************)
LetRecLog == SelectSeq(resolved.st.log, LAMBDA l : l.tag = "LetRec")

OnlyLetRecOf(name) ==
    Cardinality({i \in 1..Len(LetRecLog) : LetRecLog[i].name = name}) = 1

C16_LetRecLowering ==
    /\ checked.ok => resolved.st.err = ""
    /\ \A i \in 1..Len(LetRecLog) : \A j \in 1..Len(NameLog) :
          LET l == LetRecLog[i]
              n == NameLog[j]
          IN (n.name = l.name /\ OnlyLetRecOf(l.name)) =>
                /\ n.depth = l.depth + 1 => (n.kind = "Local" /\ n.k = 0)
                /\ n.depth = l.depth =>
                      /\ n.kind = IF l.depth = 0 THEN "Global" ELSE "Local"
                      /\ n.k = l.before
    /\ \A i \in 1..Len(resolved.st.procs) :
          LET p == resolved.st.procs[i] IN
          p.name # "" => \A c \in 1..Len(p.captures) : p.captures[c] # p.name
    /\ program = SumProgram(5) =>
          /\ phase \in {"run", "done"}
          /\ phase = "done" => result = Ok(Integer(15))

\* sum has called itself five times and n has reached 0
C16_Witness ==
    /\ program = SumProgram(5)
    /\ phase = "run"
    /\ Len(call_stack) = 6
    /\ stack[stack_base + 2] = Integer(0)
    /\ \E j \in 1..Len(NameLog) :
          NameLog[j].name = "sum" /\ NameLog[j].kind = "Local" /\ NameLog[j].k = 0

(***************************************************************************)
(* C17: swapping the branches of an If.  SwapFirstIf exchanges the         *)
(* branches of the first If in emission order (of a source expression or   *)
(* of a nameless one); IfLayout finds that If in a chunk: its JumpTrue is   *)
(* the first JumpTrue of the chunk.                                        *)
(***************************************************************************)
Kids(e) ==
    CASE e.tag = "Call" -> <<"proc", "arg">>
      [] e.tag = "Subtract" -> <<"left", "right">>
      [] e.tag = "Diff" -> <<"lhs", "rhs">>
      [] e.tag = "IsZero" -> <<"e">>
      [] e.tag = "Let" -> IF "rhs" \in DOMAIN e THEN <<"rhs", "body">>
                          ELSE <<"expr", "body">>
      [] e.tag = "LetRec" -> <<"proc_body", "let_body">>
      [] e.tag = "Proc" -> <<"body">>
      [] e.tag = "Assert" -> <<"test", "body">>
      [] OTHER -> <<>>

RECURSIVE SwapFirstIf(_)
RECURSIVE SwapKids(_, _, _)
SwapKids(e, ks, i) ==
    IF i > Len(ks) THEN [e |-> e, done |-> FALSE] ELSE
    LET r == SwapFirstIf(e[ks[i]]) IN
    IF r.done THEN [e |-> [e EXCEPT ![ks[i]] = r.e], done |-> TRUE]
    ELSE SwapKids(e, ks, i + 1)

SwapFirstIf(e) ==
    IF e.tag # "If" THEN SwapKids(e, Kids(e), 1) ELSE
    LET tf == IF "guard" \in DOMAIN e THEN "guard" ELSE "test"
        t == SwapFirstIf(e[tf])
    IN
    IF t.done THEN [e |-> [e EXCEPT ![tf] = t.e], done |-> TRUE]
    ELSE [e |-> IF tf = "guard" THEN N_If(e.guard, e.alt, e.consq)
                ELSE If(e.test, e.alternate, e.consequent),
          done |-> TRUE]

HasIf == SwapFirstIf(program).done

Swapped == SwapFirstIf(program).e

\* indexes (1-based) into ops: the JumpTrue, the first op of the
\* consequent, the first op after the If
IfLayout(ops) ==
    LET jt == CHOOSE i \in 1..Len(ops) :
                 /\ ops[i].op = "JumpTrue"
                 /\ \A j \in 1..(i - 1) : ops[j].op # "JumpTrue"
        cs == ops[jt].addr + 1
    IN [jt |-> jt, cs |-> cs, end |-> ops[cs - 1].addr + 1]

\* the ops at indexes from..to with their addresses made relative to from
Body(ops, from, to) ==
    [n \in 1..(to - from + 1) |->
        LET o == ops[from + n - 1] IN
        IF o.op \in {"Jump", "JumpTrue", "MakeProc"}
        THEN [o EXCEPT !.addr = @ - (from - 1)] ELSE o]

AltBody(ops) == LET l == IfLayout(ops) IN Body(ops, l.jt + 1, l.cs - 2)

ConsqBody(ops) == LET l == IfLayout(ops) IN Body(ops, l.cs, l.end - 1)

\* the two chunks agree before the JumpTrue and from the end of the If on
SameAround(c1, c2) ==
    LET l1 == IfLayout(c1)
        l2 == IfLayout(c2)
    IN /\ Len(c1) = Len(c2)
       /\ l1.jt = l2.jt
       /\ l1.end = l2.end
       /\ SubSeq(c1, 1, l1.jt - 1) = SubSeq(c2, 1, l2.jt - 1)
       /\ SubSeq(c1, l1.end, Len(c1)) = SubSeq(c2, l2.end, Len(c2))

RECURSIVE NetHeight(_)
NetHeight(e) ==
    CASE e.tag \in {"Call", "Subtract"} ->
            NetHeight(e[Kids(e)[1]]) + NetHeight(e[Kids(e)[2]]) - 1
      [] e.tag = "IsZero" -> NetHeight(e.e)
      [] e.tag = "Let" -> NetHeight(e.expr) + NetHeight(e.body)
      [] e.tag = "LetRec" -> 1 + NetHeight(e.let_body)
      [] e.tag = "If" -> NetHeight(e.test) - 1 + NetHeight(e.consequent)
      [] e.tag = "Assert" -> NetHeight(e.test) - 1 + NetHeight(e.body)
      [] OTHER -> 1

\* the branches of every If of e change the height by the same amount
RECURSIVE Balanced(_)
Balanced(e) ==
    /\ \A i \in 1..Len(Kids(e)) : Balanced(e[Kids(e)[i]])
    /\ e.tag = "If" =>
          /\ Balanced(e.test) /\ Balanced(e.consequent) /\ Balanced(e.alternate)
          /\ NetHeight(e.consequent) = NetHeight(e.alternate)

\* no op of the body reads a capture or makes a procedure that captures
CaptureFree(body) ==
    \A i \in 1..Len(body) :
        /\ body[i].op # "PushCapture"
        /\ body[i].op = "MakeProc" => body[i].caps = <<>>

C18_IndicesInRange ==
    (Accepted /\ phase = "run" /\ next_op < Len(chunk)) =>
        LET o == chunk[next_op + 1] IN
        /\ o.op = "PushCapture" => o.k < Len(captures)
        /\ o.op = "PushLocal" => stack_base + o.k < Len(stack)
        /\ o.op = "PushGlobal" => o.k < Len(stack)
        /\ o.op = "MakeProc" =>
              \A i \in 1..Len(o.caps) :
                 IF o.caps[i].is_local
                 THEN stack_base + o.caps[i].index < Len(stack)
                 ELSE o.caps[i].index < Len(captures)

(***************************************************************************)
(* C19: the value a top-level let binds.  GlobalScopes lists, for each     *)
(* top-level binding the compiler made, its absolute slot k and the        *)
(* address of the first op of the let body (ifs: the number of If branches *)
(* around the let).  InBody: the top-level code has reached the let body.  *)
(***************************************************************************)
GlobalScopes == IF Accepted THEN compile(program).scopes ELSE <<>>

InBody(sc) ==
    /\ Accepted
    /\ phase = "run"
    /\ IF call_stack = <<>> THEN next_op >= sc.from
       ELSE call_stack[1].next_op > sc.from

\* C19: once a top-level let (outside the branches of an If) has left its
\* bound value at absolute index k, no step removes or changes the value at
\* index k
C19_GlobalSlotStep ==
    \A i \in 1..Len(GlobalScopes) :
        LET sc == GlobalScopes[i] IN
        (sc.ifs = 0 /\ InBody(sc)) =>
            /\ Len(stack') > sc.k
            /\ stack'[sc.k + 1] = stack[sc.k + 1]

C19_GlobalSlotNeverChanges == [][C19_GlobalSlotStep]_vars

(***************************************************************************)
(* C20: the captures of a Procedure are fixed when its MakeProc executes.  *)
(* Every procedure value of a compiled program's run, wherever a copy of   *)
(* it is held (value stack, current captures, saved frames, captures of    *)
(* other procedures, the result), is a value some MakeProc built, with the *)
(* captures it was built with; and the captures a call runs with are those *)
(* of the procedure called.                                                *)
(***************************************************************************)
RECURSIVE ProcsOf(_)
ProcsOf(v) ==
    IF v.tag # "Procedure" THEN {}
    ELSE {v} \cup UNION {ProcsOf(v.captures[i]) : i \in 1..Len(v.captures)}

ProcsIn(s) == UNION {ProcsOf(s[i]) : i \in 1..Len(s)}

HeldProcs ==
    ProcsIn(stack) \cup ProcsIn(captures) \cup ProcsOf(result.value)
    \cup UNION {ProcsIn(call_stack[i].captures) : i \in 1..Len(call_stack)}

C20_CapturesFixedAtMakeProc ==
    Accepted =>
        /\ \A p \in HeldProcs : \E i \in 1..Len(made) : made[i] = p
        /\ (phase = "run" /\ Len(frames) > 0) =>
              /\ captures = frames[Len(frames)].proc.captures
              /\ Len(call_stack) = Len(frames)
              /\ call_stack[1].captures = <<>>
              /\ \A i \in 2..Len(call_stack) :
                    call_stack[i].captures = frames[i - 1].proc.captures

\* a procedure with captures is running while two copies of it are on the
\* value stack, in a program that makes tail calls
C20_Witness ==
    /\ Accepted
    /\ phase = "run"
    /\ Len(frames) > 0
    /\ captures # <<>>
    /\ \E i \in 1..Len(stack) : \E j \in (i + 1)..Len(stack) :
          /\ stack[i].tag = "Procedure"
          /\ stack[i] = stack[j]
          /\ stack[i].captures = captures
    /\ next_op > 0
    /\ \E a \in 1..Len(chunk) : chunk[a].op = "TailCall"

(***************************************************************************)
(* C21: procedures form an acyclic graph.  Every value in the captures of  *)
(* a procedure a MakeProc built is a scalar or a procedure a MakeProc      *)
(* built strictly earlier, so no procedure is reachable from its own       *)
(* captures (also for letrec procedures and procedures nested in them).    *)
(***************************************************************************)
C21_CapturesMadeEarlier ==
    Accepted =>
        \A i \in 1..Len(made) :
            /\ made[i] \notin ProcsIn(made[i].captures)
            /\ \A c \in 1..Len(made[i].captures) :
                  LET v == made[i].captures[c] IN
                  /\ v.tag \in {"Integer", "Boolean", "Procedure"}
                  /\ v.tag = "Procedure" => \E j \in 1..(i - 1) : made[j] = v

\* the procedure nested in a letrec procedure has captured that procedure
\* and is running
C21_Witness ==
    /\ program \in {NestedPrograms[i] : i \in 1..Len(NestedPrograms)}
    /\ phase = "run"
    /\ Len(frames) > 0
    /\ Len(captures) = 1
    /\ captures[1].tag = "Procedure"
    /\ frames[Len(frames)].proc.captures = captures
    /\ \E i \in 1..Len(made) : \E j \in 1..(i - 1) :
          made[i].captures = captures /\ made[j] = captures[1]

(***************************************************************************)
(* main.rs: run_file prints the result of read_file_eval (the value and    *)
(* its type, or "error: ..." on stderr) and returns, and main returns      *)
(* after it: the process ends with the status of a normal return whatever  *)
(* the result was.  A panic in run ends the process with the status of a   *)
(* Rust panic.                                                             *)
(***************************************************************************)
Terminated == phase \in {"done", "error", "rejected", "panic"}

ExitSuccess == 0

ExitPanic == 101

exit_code == IF phase = "panic" THEN ExitPanic ELSE ExitSuccess

\* C22: running a script file ends the process with exit code 0 when
\* evaluation succeeds and with a non-zero exit code when type checking,
\* name resolution or execution returns an error
C22_ExitCodeTellsErrors ==
    (program # NoProgram /\ Terminated) =>
        /\ result.ok => exit_code = 0
        /\ ~result.ok => exit_code # 0

(***************************************************************************)
(* C23: at the end of a successful compilation every Jump and JumpTrue     *)
(* has been patched with its real destination, at most chunk.len(): the    *)
(* JumpTrue of an If targets the op after the If's Jump, the Jump of an If *)
(* is the op before the target of its JumpTrue, the Jump before a          *)
(* procedure body targets the MakeProc of that body, and no target is the  *)
(* placeholder 0.  (chunk[i] is the op at address i - 1.)                  *)
(***************************************************************************)
ProcJump(i) ==
    /\ chunk[i].addr < Len(chunk)
    /\ chunk[chunk[i].addr + 1].op = "MakeProc"
    /\ chunk[chunk[i].addr + 1].addr = i

IfJump(i) ==
    \E j \in 1..(i - 1) : chunk[j].op = "JumpTrue" /\ chunk[j].addr = i

C23_JumpsPatched ==
    Accepted => \A i \in 1..Len(chunk) :
        /\ chunk[i].op = "JumpTrue" =>
              /\ 0 < chunk[i].addr /\ chunk[i].addr < Len(chunk)
              /\ chunk[chunk[i].addr].op = "Jump"
              /\ IfJump(chunk[i].addr)
        /\ chunk[i].op = "Jump" =>
              /\ 0 < chunk[i].addr /\ chunk[i].addr <= Len(chunk)
              /\ ProcJump(i) \/ IfJump(i)

\* the Jump of an If is about to run in a chunk that also holds a procedure
C23_Witness ==
    /\ Accepted
    /\ Fetching("Jump")
    /\ IfJump(next_op + 1)
    /\ ~ProcJump(next_op + 1)
    /\ \E i \in 1..Len(chunk) : chunk[i].op = "Jump" /\ ProcJump(i)

(***************************************************************************)
(* C24 (as stated): the Jump emitted before a procedure body is patched to *)
(* M + 1, where M is the address of the MakeProc emitted after the body's  *)
(* Return.  (The MakeProc at address M is chunk[M + 1]; its start address  *)
(* is the address after the Jump, so the Jump is chunk[start].)            *)
(***************************************************************************)
C24_ProcJumpSkipsMakeProc ==
    Accepted => \A i \in 1..Len(chunk) :
        chunk[i].op = "MakeProc" =>
            /\ chunk[chunk[i].addr].op = "Jump"
            /\ chunk[chunk[i].addr].addr = (i - 1) + 1

(***************************************************************************)
(* C24 (amended): the Jump emitted before a procedure body is patched to   *)
(* M, the address of the MakeProc itself, the op before it is the body's   *)
(* Return, and when that Jump has run the next op executed is the          *)
(* MakeProc.                                                               *)
(***************************************************************************)
C24_ProcJumpLandsOnMakeProc ==
    Accepted =>
        /\ \A i \in 1..Len(chunk) :
              chunk[i].op = "MakeProc" =>
                  /\ chunk[chunk[i].addr].op = "Jump"
                  /\ chunk[chunk[i].addr].addr = i - 1
                  /\ chunk[i - 1].op = "Return"
        /\ (phase = "run" /\ next_op > 0 /\ next_op < Len(chunk)
            /\ \E j \in 1..Len(chunk) :
                  chunk[j].op = "Jump" /\ ProcJump(j) /\ chunk[j].addr = next_op) =>
              chunk[next_op + 1].op = "MakeProc"

\* the Jump over the body of a letrec procedure has run: MakeProc is next
C24_Witness ==
    /\ Accepted
    /\ program.tag = "LetRec"
    /\ Fetching("MakeProc")
    /\ stack = <<>>
    /\ chunk[1].op = "Jump"
    /\ chunk[1].addr = next_op

(***************************************************************************)
(* The capture lists of the procedures resolved (resolved.st.procs, in the *)
(* order in which the procedures were finished).                           *)
(***************************************************************************)
ProcLog == resolved.st.procs

\* the entry of the procedure directly around procedure i: the first one
\* finished after i that is one procedure less deep
Parent(i) ==
    CHOOSE j \in (i + 1)..Len(ProcLog) :
        /\ ProcLog[j].depth = ProcLog[i].depth - 1
        /\ \A k \in (i + 1)..(j - 1) : ProcLog[k].depth # ProcLog[i].depth - 1

NoSecondEntry(p) ==
    \A a \in 1..Len(p.captures) : \A b \in 1..Len(p.captures) :
        p.captures[a] = p.captures[b] => a = b

\* the names e refers to outside the procedures nested in e
RECURSIVE DirectRefs(_)
DirectRefs(e) ==
    CASE e.tag = "Name" -> {e.name}
      [] e.tag = "If" ->
            DirectRefs(e.test) \cup DirectRefs(e.consequent) \cup DirectRefs(e.alternate)
      [] e.tag = "LetRec" -> DirectRefs(e.let_body)
      [] e.tag = "Proc" -> {}
      [] OTHER -> UNION {DirectRefs(e[Kids(e)[i]]) : i \in 1..Len(Kids(e))}

(***************************************************************************)
(* C25: capturing cascades outward.  In the capture list of a procedure,   *)
(* the entry of a name the directly enclosing frame binds is               *)
(* FromLocal(its slot), the entry of any other name is FromCapture(offset  *)
(* of the name in the list of the procedure around it), and a reference to *)
(* a name already in a procedure's list appends no new entry: a list holds *)
(* no second entry of a name that is referenced only from two or more      *)
(* procedures in from its binding.                                         *)
(***************************************************************************)
C25_CaptureCascade ==
    WasResolved => \A i \in 1..Len(ProcLog) :
        LET p == ProcLog[i] IN
        /\ \A c \in 1..Len(p.captures) :
              LET slot == lookup(p.near, p.captures[c]) IN
              IF slot.some
              THEN p.recipe[c].is_local /\ p.recipe[c].index = slot.v
              ELSE /\ ~p.recipe[c].is_local
                   /\ p.depth > 0
                   /\ p.recipe[c].index < Len(ProcLog[Parent(i)].captures)
                   /\ ProcLog[Parent(i)].captures[p.recipe[c].index + 1] = p.captures[c]
        /\ \A a \in 1..Len(p.captures) : \A b \in 1..Len(p.captures) :
              (p.captures[a] = p.captures[b] /\ p.captures[a] \notin DirectRefs(p.body))
                 => a = b

\* the names that are free in e, given the names bound around it
RECURSIVE FreeVars(_, _)
FreeVars(e, bound) ==
    CASE e.tag = "Name" -> {e.name} \ bound
      [] e.tag = "If" ->
            FreeVars(e.test, bound) \cup FreeVars(e.consequent, bound)
            \cup FreeVars(e.alternate, bound)
      [] e.tag = "Let" ->
            FreeVars(e.expr, bound) \cup FreeVars(e.body, bound \cup {e.name})
      [] e.tag = "LetRec" ->
            FreeVars(e.proc_body, bound \cup {e.name, e.param})
            \cup FreeVars(e.let_body, bound \cup {e.name})
      [] e.tag = "Proc" -> FreeVars(e.body, bound \cup {e.param})
      [] OTHER -> UNION {FreeVars(e[Kids(e)[i]], bound) : i \in 1..Len(Kids(e))}

(***************************************************************************)
(* C26: the capture list of every resolved procedure holds exactly one     *)
(* entry for each distinct variable that is free in the body and bound in  *)
(* an enclosing procedure, and no second entry for a variable that is      *)
(* referenced more than once.                                              *)
(***************************************************************************)
C26_OneEntryPerFreeVariable ==
    WasResolved => \A i \in 1..Len(ProcLog) :
        LET p == ProcLog[i] IN
        /\ {p.captures[c] : c \in 1..Len(p.captures)}
              = FreeVars(p.body, {p.name, p.var}) \cap p.enclosing
        /\ NoSecondEntry(p)

(***************************************************************************)
(* C27: Call and Return pair up.  A Call that enters a procedure saves     *)
(* (ip after the Call, frame base, captures) in a new frame and sets the   *)
(* frame base to stack height - 2.  The Return of the callee leaves the    *)
(* stack one shorter than just before the Call, the values below the       *)
(* callee unchanged and the callee's top value on top, and ip, frame base  *)
(* and captures are the values the Call saved.                             *)
(***************************************************************************)
C27_CallStep ==
    (Accepted /\ Fetching("Call") /\ phase' = "run") =>
        /\ call_stack' = Append(call_stack, [next_op |-> next_op + 1,
                                             stack_base |-> stack_base,
                                             captures |-> captures])
        /\ stack_base' = Len(stack) - 2
        /\ stack' = stack

C27_ReturnStep ==
    (Accepted /\ Fetching("Return") /\ frames # <<>>) =>
        LET f == frames[Len(frames)] IN
        /\ Len(stack') = f.height - 1
        /\ stack'[Len(stack')] = stack[Len(stack)]
        /\ SubSeq(stack', 1, f.height - 2) = SubSeq(stack, 1, f.height - 2)
        /\ next_op' = f.ip
        /\ stack_base' = f.base
        /\ captures' = f.caps
        /\ call_stack' = SubSeq(call_stack, 1, Len(call_stack) - 1)
        /\ phase' = "run"

C27_CallReturnPairUp == [][C27_CallStep /\ C27_ReturnStep]_vars

\* a procedure called from inside another procedure has returned to it:
\* the result is on top, the caller's captures are back
C27_Witness ==
    /\ Accepted
    /\ phase = "run"
    /\ next_op > 0
    /\ chunk[next_op].op = "Call"
    /\ Len(call_stack) = 1
    /\ stack_base > 0
    /\ captures # <<>>
    /\ stack[Len(stack)].tag = "Integer"
    /\ Len(made) > 1

(***************************************************************************)
(* C28: executing TailCall leaves the call stack and the frame base        *)
(* unchanged; afterwards the value stack has length frame base + 2 with    *)
(* the called procedure at the frame base and the argument above it (the   *)
(* locals of the old activation dropped, the values below the frame base   *)
(* kept), ip is the procedure's start address and captures are the         *)
(* procedure's captures.                                                   *)
(***************************************************************************)
C28_TailCallStep ==
    (Accepted /\ Fetching("TailCall") /\ phase' = "run") =>
        LET called == stack[Len(stack) - 1]
            argument == stack[Len(stack)]
        IN
        /\ call_stack' = call_stack
        /\ stack_base' = stack_base
        /\ Len(stack') = stack_base + 2
        /\ stack'[stack_base + 1] = called
        /\ stack'[stack_base + 2] = argument
        /\ SubSeq(stack', 1, stack_base) = SubSeq(stack, 1, stack_base)
        /\ called.tag = "Procedure"
        /\ next_op' = called.start
        /\ captures' = called.captures

C28_TailCallReplacesFrame == [][C28_TailCallStep]_vars

\* a tail call has just entered a procedure with captures: two values in
\* the frame, the call stack as deep as before
C28_Witness ==
    /\ Accepted
    /\ phase = "run"
    /\ Len(frames) = 1
    /\ frames[1].tails > 0
    /\ Len(stack) = stack_base + 2
    /\ stack_base > 0
    /\ stack[stack_base + 1].tag = "Procedure"
    /\ next_op = stack[stack_base + 1].start
    /\ captures = stack[stack_base + 1].captures
    /\ captures # <<>>

(***************************************************************************)
(* C29: evaluation is strictly left to right.  For a Subtract (a Call) at  *)
(* top level the chunk is the ops of the left operand (the operator), then *)
(* those of the right operand (the operand), then Diff (Call); the Diff    *)
(* pushes (left value) - (right value), so -(10, 3) yields Integer(7); the *)
(* Call transfers control to the operator's procedure with the operand's   *)
(* value as its argument.  The values are those of the reference           *)
(* semantics.                                                              *)
(***************************************************************************)
IsOrderProgram == \E i \in 1..Len(OrderPrograms) : program = OrderPrograms[i]

First == IF program.tag = "Subtract" THEN program.left ELSE program.proc

Second == IF program.tag = "Subtract" THEN program.right ELSE program.arg

C29_Order ==
    chunk = Append(compile_expr(Second, "Operand",
                                compile_expr(First, "Operand", NewState)).ops,
                   IF program.tag = "Subtract" THEN OpDiff ELSE OpCall)

C29_LastStep ==
    (phase = "run" /\ call_stack = <<>> /\ next_op = Len(chunk) - 1) =>
        /\ phase' = "run"
        /\ program.tag = "Subtract" =>
              stack'[Len(stack')]
                 = Integer(Eval(First, <<>>).n - Eval(Second, <<>>).n)
        /\ program.tag = "Call" =>
              /\ stack[Len(stack) - 1].tag = "Procedure"
              /\ next_op' = stack[Len(stack) - 1].start
              /\ stack[Len(stack)] = Eval(Second, <<>>)

C29_Result ==
    program = OrderPrograms[1] => (phase' = "done" => result' = Ok(Integer(7)))

C29_LeftToRight ==
    [][IsOrderProgram => (C29_Order /\ C29_LastStep /\ C29_Result)]_vars

(***************************************************************************)
(* C30: for a compiled if t then c else a exactly one branch executes and  *)
(* execution continues at the first op after the whole If.  The If is the  *)
(* first one of the chunk (IfLayout); addresses are 0-based.  A step       *)
(* inside a branch stays in that branch or goes to the end of the If; a    *)
(* Call comes back to the op after it, and a TailCall may leave when the   *)
(* If is the last thing its procedure does (only Jumps and a Return        *)
(* follow).                                                                *)
(***************************************************************************)
IsIfProgram == \E i \in 1..Len(IfPrograms) : program = IfPrograms[i]

IfHome == BodyStart(IfLayout(chunk).jt - 1)

InAlt(a) ==
    /\ IfLayout(chunk).jt <= a /\ a <= IfLayout(chunk).cs - 2
    /\ BodyStart(a) = IfHome

InConsq(a) ==
    /\ IfLayout(chunk).cs - 1 <= a /\ a <= IfLayout(chunk).end - 2
    /\ BodyStart(a) = IfHome

IfEnd == IfLayout(chunk).end - 1

RECURSIVE TailEnd(_)
TailEnd(a) ==
    /\ a < Len(chunk)
    /\ \/ chunk[a + 1].op = "Return"
       \/ chunk[a + 1].op = "Jump" /\ TailEnd(chunk[a + 1].addr)

C30_IfStep ==
    (Accepted /\ HasIf /\ phase = "run" /\ phase' = "run" /\ next_op < Len(chunk)) =>
        LET o == chunk[next_op + 1]
            leaves == o.op = "TailCall" /\ TailEnd(IfEnd)
        IN
        /\ (next_op = IfLayout(chunk).jt - 1) =>
              next_op' = IF stack[Len(stack)].b THEN IfLayout(chunk).cs - 1
                         ELSE IfLayout(chunk).jt
        /\ (InAlt(next_op) /\ o.op # "Call") =>
              InAlt(next_op') \/ next_op' = IfEnd \/ leaves
        /\ (InConsq(next_op) /\ o.op # "Call") =>
              InConsq(next_op') \/ next_op' = IfEnd \/ leaves

C30_IfResult ==
    IsIfProgram =>
        /\ phase' \in {"run", "done"}
        /\ phase' = "done" => result' = Ok(Eval(program, <<>>))

C30_OneBranchRuns == [][C30_IfStep /\ C30_IfResult]_vars

(***************************************************************************)
(* C31: let scoping.  Slots gives, for every reference in the order the    *)
(* resolver meets them, the slot the statement assigns: a let binds its    *)
(* name to slot stack_top - 1 after its right-hand side, for its body      *)
(* only; the newest binding of a name wins.  The environment is passed     *)
(* down, so a binding ends with its let.  cur: the bindings of the current *)
(* procedure, hidden: the names enclosing procedures bind, glob: the       *)
(* top-level bindings.  At run time the value of the right-hand side is    *)
(* the top of the stack when the body starts.                              *)
(***************************************************************************)
Bind(env, name, slot) == Append(env, [name |-> name, slot |-> slot])

Bound(env, name) == \E i \in 1..Len(env) : env[i].name = name

Slot(env, name) ==
    env[CHOOSE i \in 1..Len(env) :
            /\ env[i].name = name
            /\ \A j \in (i + 1)..Len(env) : env[j].name # name].slot

NamesOf(env) == {env[i].name : i \in 1..Len(env)}

RECURSIVE Slots(_, _, _, _, _, _)
Slots(e, cur, hidden, glob, top, inproc) ==
    CASE e.tag = "Name" ->
            [refs |-> << IF Bound(cur, e.name)
                            THEN [kind |-> "Local", k |-> Slot(cur, e.name)]
                         ELSE IF e.name \in hidden
                            THEN [kind |-> "Capture", k |-> -1]
                         ELSE IF Bound(glob, e.name)
                            THEN [kind |-> "Global", k |-> Slot(glob, e.name)]
                         ELSE [kind |-> "None", k |-> -1] >>,
             top |-> top + 1]
      [] e.tag \in {"LiteralInt", "LiteralBool"} -> [refs |-> <<>>, top |-> top + 1]
      [] e.tag = "Subtract" ->
            LET l == Slots(e.left, cur, hidden, glob, top, inproc)
                r == Slots(e.right, cur, hidden, glob, l.top, inproc)
            IN [refs |-> l.refs \o r.refs, top |-> r.top - 1]
      [] e.tag = "Call" ->
            LET p == Slots(e.proc, cur, hidden, glob, top, inproc)
                a == Slots(e.arg, cur, hidden, glob, p.top, inproc)
            IN [refs |-> p.refs \o a.refs, top |-> a.top - 1]
      [] e.tag = "IsZero" -> Slots(e.e, cur, hidden, glob, top, inproc)
      [] e.tag = "If" ->
            LET t == Slots(e.test, cur, hidden, glob, top, inproc)
                a == Slots(e.alternate, cur, hidden, glob, t.top - 1, inproc)
                c == Slots(e.consequent, cur, hidden, glob, t.top - 1, inproc)
            IN [refs |-> t.refs \o a.refs \o c.refs, top |-> c.top]
      [] e.tag = "Assert" ->
            LET t == Slots(e.test, cur, hidden, glob, top, inproc)
                b == Slots(e.body, cur, hidden, glob, t.top - 1, inproc)
            IN [refs |-> t.refs \o b.refs, top |-> b.top]
      [] e.tag = "Let" ->
            LET r == Slots(e.expr, cur, hidden, glob, top, inproc)
                b == IF inproc
                     THEN Slots(e.body, Bind(cur, e.name, r.top - 1), hidden, glob,
                                r.top, inproc)
                     ELSE Slots(e.body, cur, hidden, Bind(glob, e.name, r.top - 1),
                                r.top, inproc)
            IN [refs |-> r.refs \o b.refs, top |-> b.top]
      [] e.tag = "LetRec" ->
            LET p == Slots(e.proc_body, Bind(Bind(<<>>, e.name, 0), e.param, 1),
                           hidden \cup NamesOf(cur), glob, 2, TRUE)
                b == IF inproc
                     THEN Slots(e.let_body, Bind(cur, e.name, top), hidden, glob,
                                top + 1, inproc)
                     ELSE Slots(e.let_body, cur, hidden, Bind(glob, e.name, top),
                                top + 1, inproc)
            IN [refs |-> p.refs \o b.refs, top |-> b.top]
      [] e.tag = "Proc" ->
            LET p == Slots(e.body, Bind(Bind(<<>>, "", 0), e.param, 1),
                           hidden \cup NamesOf(cur), glob, 2, TRUE)
            IN [refs |-> p.refs, top |-> top + 1]

LetSlots == Slots(program, <<>>, {}, <<>>, 0, FALSE).refs

\* the resolver gives every reference to a let-bound or parameter name the
\* slot of Slots, and fails exactly when Slots finds a name unbound
C31_Resolved ==
    WasResolved =>
        IF \E i \in 1..Len(LetSlots) : LetSlots[i].kind = "None"
        THEN resolved.st.err # ""
        ELSE /\ resolved.st.err = ""
             /\ Len(NameLog) = Len(LetSlots)
             /\ \A i \in 1..Len(LetSlots) :
                   /\ NameLog[i].kind = LetSlots[i].kind
                   /\ LetSlots[i].kind \in {"Local", "Global"} =>
                         NameLog[i].k = LetSlots[i].k

\* when the body of a top-level let starts, the slot bound is the top of
\* the stack: the value of the right-hand side
C31_SlotHoldsValue ==
    \A i \in 1..Len(GlobalScopes) :
        (Accepted /\ phase = "run" /\ call_stack = <<>>
            /\ next_op = GlobalScopes[i].from) =>
                Len(stack) = GlobalScopes[i].k + 1

C31_LetScoping == C31_Resolved /\ C31_SlotHoldsValue

(***************************************************************************)
(* C32: tail calls are only a space optimisation.  calls_only replaces     *)
(* every TailCall of a chunk by Call; run_ops is runtime.rs run as a       *)
(* function from a chunk to its result (run_step is one turn of the loop   *)
(* on the machine m: next_op, stack, stack_base, captures, call_stack;     *)
(* m.result is set when the loop is left).                                 *)
(***************************************************************************)
calls_only(ops) ==
    [i \in 1..Len(ops) |-> IF ops[i].op = "TailCall" THEN OpCall ELSE ops[i]]

NewMachine ==
    [next_op |-> 0, stack |-> <<>>, stack_base |-> 0, captures |-> <<>>,
     call_stack |-> <<>>, live |-> TRUE, result |-> NoResult]

Halt(m, r) == [m EXCEPT !.live = FALSE, !.result = r]

\* the operand popped is not of the type wanted, or there is none
pop_bool_error(st) ==
    IF Len(st) = 0 THEN "stack underflow" ELSE as_bool(Top(st))

pop_int_error(st) ==
    IF Len(st) = 0 THEN "stack underflow" ELSE as_int(Top(st))

run_step(ops, m) ==
    IF m.next_op >= Len(ops)
    THEN Halt(m, IF Len(m.stack) = 0 THEN Err("stack underflow") ELSE Ok(Top(m.stack)))
    ELSE
    LET o == ops[m.next_op + 1]
        st == m.stack
        n == [m EXCEPT !.next_op = @ + 1]
    IN
    CASE o.op = "Assert" ->
            IF pop_bool_error(st) # "" THEN Halt(n, Err(pop_bool_error(st)))
            ELSE IF Top(st).b THEN [n EXCEPT !.stack = Pop(st)]
            ELSE Halt(n, Err(assert_message(o.k)))
      [] o.op = "Call" ->
            IF Len(st) < 2 THEN Halt(m, Err("panic"))
            ELSE IF as_proc(st[Len(st) - 1]) # ""
            THEN Halt(m, Err(as_proc(st[Len(st) - 1])))
            ELSE [m EXCEPT !.call_stack = Append(@, [next_op |-> m.next_op + 1,
                                                     stack_base |-> m.stack_base,
                                                     captures |-> m.captures]),
                           !.stack_base = call_base(Len(st)),
                           !.next_op = st[Len(st) - 1].start,
                           !.captures = st[Len(st) - 1].captures]
      [] o.op = "TailCall" ->
            IF Len(st) < 2 THEN Halt(n, Err("stack underflow"))
            ELSE IF as_proc(Top(Pop(st))) # "" THEN Halt(n, Err(as_proc(Top(Pop(st)))))
            ELSE [m EXCEPT !.next_op = Top(Pop(st)).start,
                           !.captures = Top(Pop(st)).captures,
                           !.stack = pop_to(Pop(Pop(st)), m.stack_base)
                                     \o tail_call_pushes(Top(Pop(st)), Top(st))]
      [] o.op = "Diff" ->
            IF pop_int_error(st) # "" THEN Halt(n, Err(pop_int_error(st)))
            ELSE IF pop_int_error(Pop(st)) # ""
            THEN Halt(n, Err(pop_int_error(Pop(st))))
            ELSE [n EXCEPT !.stack = Append(Pop(Pop(st)),
                                            Integer(Top(Pop(st)).n - Top(st).n))]
      [] o.op = "IsZero" ->
            IF pop_int_error(st) # "" THEN Halt(n, Err(pop_int_error(st)))
            ELSE [n EXCEPT !.stack = Append(Pop(st), Boolean(Top(st).n = 0))]
      [] o.op = "Negate" ->
            IF pop_int_error(st) # "" THEN Halt(n, Err(pop_int_error(st)))
            ELSE [n EXCEPT !.stack = Append(Pop(st), Integer(0 - Top(st).n))]
      [] o.op = "Jump" -> [m EXCEPT !.next_op = o.addr]
      [] o.op = "JumpTrue" ->
            IF pop_bool_error(st) # "" THEN Halt(n, Err(pop_bool_error(st)))
            ELSE [m EXCEPT !.stack = Pop(st),
                           !.next_op = IF Top(st).b THEN o.addr ELSE m.next_op + 1]
      [] o.op = "MakeProc" ->
            IF \E i \in 1..Len(o.caps) :
                  IF o.caps[i].is_local
                  THEN m.stack_base + o.caps[i].index >= Len(st)
                  ELSE o.caps[i].index >= Len(m.captures)
            THEN Halt(n, Err("panic"))
            ELSE [n EXCEPT !.stack =
                     Append(st, Procedure(o.addr,
                        [i \in 1..Len(o.caps) |->
                            IF o.caps[i].is_local
                            THEN st[m.stack_base + o.caps[i].index + 1]
                            ELSE m.captures[o.caps[i].index + 1]]))]
      [] o.op = "PushCapture" ->
            IF o.k >= Len(m.captures) THEN Halt(n, Err("panic"))
            ELSE [n EXCEPT !.stack = Append(st, m.captures[o.k + 1])]
      [] o.op = "PushGlobal" ->
            IF o.k >= Len(st) THEN Halt(n, Err("panic"))
            ELSE [n EXCEPT !.stack = Append(st, st[o.k + 1])]
      [] o.op = "PushLocal" ->
            IF m.stack_base + o.k >= Len(st) THEN Halt(n, Err("panic"))
            ELSE [n EXCEPT !.stack = Append(st, st[m.stack_base + o.k + 1])]
      [] o.op = "PushValue" -> [n EXCEPT !.stack = Append(st, o.value)]
      [] o.op = "Return" ->
            IF Len(st) = 0 THEN Halt(n, Err("panic"))
            ELSE IF Len(m.call_stack) = 0 THEN Halt(n, Err("call stack underflow"))
            ELSE [m EXCEPT !.stack = Append(pop_to(st, m.stack_base), Top(st)),
                           !.next_op = Top(m.call_stack).next_op,
                           !.stack_base = Top(m.call_stack).stack_base,
                           !.captures = Top(m.call_stack).captures,
                           !.call_stack = Pop(m.call_stack)]

RECURSIVE run_from(_, _, _)
run_from(ops, m, fuel) ==
    IF ~m.live THEN m.result
    ELSE IF fuel = 0 THEN Err("out of fuel")
    ELSE run_from(ops, run_step(ops, m), fuel - 1)

\* more turns than any run of the model takes
Fuel == 8 * (MaxN + 2) * (Len(chunk) + 4)

run_ops(ops) == run_from(ops, NewMachine, Fuel)

\* C32: the run of a compiled program ends with the value or the error the
\* chunk with every TailCall replaced by Call ends with
C32_TailCallsOnlySaveSpace ==
    (Accepted /\ Terminated) => result = run_ops(calls_only(chunk))

(***************************************************************************)
(* C33: evaluating a proc expression executes none of its body's           *)
(* instructions and pushes exactly one value, a Procedure whose start      *)
(* address is the index of the first instruction of the body (the op after *)
(* the Jump); the body's instructions are executed only through a Call or  *)
(* TailCall of that procedure.  A step moves control into another          *)
(* procedure body (BodyStart changes) only by a Call or TailCall landing   *)
(* on the first op of the callee's body, or by a Return to the caller.     *)
(***************************************************************************)
MakeProcOf(start) ==
    {k \in 1..Len(chunk) : chunk[k].op = "MakeProc" /\ chunk[k].addr = start}

IsBodyStart(a) == MakeProcOf(a) # {}

C33_ProcStep ==
    (Accepted /\ phase = "run" /\ phase' = "run" /\ next_op < Len(chunk)) =>
        LET o == chunk[next_op + 1] IN
        /\ (o.op = "Jump" /\ IsBodyStart(next_op + 1)) =>
              /\ next_op' + 1 \in MakeProcOf(next_op + 1)
              /\ stack' = stack
        /\ o.op = "MakeProc" =>
              /\ o.addr > 0
              /\ chunk[o.addr].op = "Jump"
              /\ next_op' = next_op + 1
              /\ Len(stack') = Len(stack) + 1
              /\ SubSeq(stack', 1, Len(stack)) = stack
              /\ stack'[Len(stack')].tag = "Procedure"
              /\ stack'[Len(stack')].start = o.addr
        /\ (IsBodyStart(next_op') \/ BodyStart(next_op') # BodyStart(next_op)) =>
              \/ /\ o.op \in {"Call", "TailCall"}
                 /\ IsBodyStart(next_op')
                 /\ stack[Len(stack) - 1].tag = "Procedure"
                 /\ stack[Len(stack) - 1].start = next_op'
                 /\ stack[Len(stack) - 1] \in {made[i] : i \in 1..Len(made)}
              \/ /\ o.op = "Return"
                 /\ ~IsBodyStart(next_op')
                 /\ next_op' = call_stack[Len(call_stack)].next_op

C33_ProcBodyRunsOnlyWhenCalled == [][C33_ProcStep]_vars

\* a procedure made earlier has been called: the run is at the first op of
\* its body, which the Jump before it skipped when the proc was evaluated
C33_Witness ==
    /\ Accepted
    /\ phase = "run"
    /\ IsBodyStart(next_op)
    /\ call_stack # <<>>
    /\ \E i \in 1..Len(made) : made[i].start = next_op
    /\ chunk[next_op].op = "Jump"

(***************************************************************************)
(* C34: when the run of a compiled program ends normally (next_op has run  *)
(* off the end of the chunk) the call stack is empty and the frame base is *)
(* 0: every frame a Call pushed has been popped by a Return, and Return    *)
(* never executes with an empty call stack.                                *)
(***************************************************************************)
OffTheEnd == phase = "run" /\ next_op >= Len(chunk)

C34_CallStackEmptyAtEnd ==
    Accepted =>
        /\ (OffTheEnd \/ phase = "done") =>
              /\ call_stack = <<>>
              /\ frames = <<>>
              /\ stack_base = 0
        /\ Fetching("Return") => call_stack # <<>>
        /\ result # Err("call stack underflow")

\* the last op of the chunk is a Call, and the procedure it called has
\* returned to the end of the chunk
C34_Witness ==
    /\ Accepted
    /\ OffTheEnd
    /\ chunk[Len(chunk)].op = "Call"
    /\ call_stack = <<>>
    /\ stack_base = 0
    /\ Len(made) > 0

(***************************************************************************)
(* C35 (as stated): resolving any expression successfully changes only     *)
(* stack_top: the globals table, the current locals table, the resolver's  *)
(* call_stack of enclosing procs and the save_stack are the same after the *)
(* expression as before it, and at the end every scope, proc and saved     *)
(* height has been closed.  (Each log entry holds the comparison of the    *)
(* state before an expression with the state after it.)                    *)
(***************************************************************************)
ResolveLog == resolved.st.log

AllClosed ==
    /\ resolved.st.globals = <<>>
    /\ resolved.st.locals = NoLocals
    /\ resolved.st.call_stack = <<>>
    /\ resolved.st.save_stack = <<>>

C36_TypeCheckedProgramsResolve ==
    checked.ok =>
        /\ resolved.st.err = ""
        /\ phase # "rejected"
        /\ \A i \in 1..Len(NameLog) : NameLog[i].kind \in {"Local", "Capture", "Global"}

\* a type-checked program with references of all three kinds is running
C36_Witness ==
    /\ checked.ok
    /\ phase = "run"
    /\ \E i \in 1..Len(NameLog) : NameLog[i].kind = "Local"
    /\ \E i \in 1..Len(NameLog) : NameLog[i].kind = "Capture"
    /\ \E i \in 1..Len(NameLog) : NameLog[i].kind = "Global"

(***************************************************************************)
(* C37: every Jump and JumpTrue the compiler emits is a forward branch     *)
(* (its target is greater than its own address), so the run of a compiled  *)
(* program in which no Call or TailCall executes ends after at most        *)
(* Len(chunk) ops: as long as no call has executed, every op executed has  *)
(* moved next_op forward.                                                  *)
(***************************************************************************)
C37_ForwardJumps ==
    Accepted =>
        /\ \A i \in 1..Len(chunk) :
              chunk[i].op \in {"Jump", "JumpTrue"} => chunk[i].addr > i - 1
        /\ steps.calls = 0 =>
              /\ steps.n <= Len(chunk)
              /\ phase = "run" => steps.n <= next_op

\* a run without a call is over, and its jumps skipped part of the chunk
C37_Witness ==
    /\ Accepted
    /\ phase = "done"
    /\ steps.calls = 0
    /\ 0 < steps.n /\ steps.n < Len(chunk)
    /\ \E i \in 1..Len(chunk) : chunk[i].op = "JumpTrue"
    /\ \E i \in 1..Len(chunk) : chunk[i].op = "MakeProc"

====
